---- MODULE Spec2Model ----
(***************************************************************************)
(* Model of the R3-Cycle kiosk controller (src/raspberry_pi/main.py and    *)
(* src/raspberry_pi/realtime_client.py, src/raspberry_pi/sync.py,          *)
(* database.py of the deployed copy).                                      *)
(*                                                                         *)
(* Ten parts, each with its own specification:                             *)
(*   DetectorSpec   - TransactionProcessor.wait_for_multiple_papers        *)
(*   ScanSpec       - process_transaction / read_rfid / rfid:scan_request  *)
(*   RedemptionSpec - RedemptionHandlerThread (poller + immediate path)    *)
(*   GatewaySpec    - SyncManager.smart_verify_user / smart_submit         *)
(*   TxnSpec        - TransactionProcessor.process_transaction, one call   *)
(*   ActuatorSpec   - _init_servos / _set_servo_angle / dispense           *)
(*   LockSpec       - the with blocks of the three locks, per thread       *)
(*   ExtractSpec    - extract_paper_count_from_reward_type and its caller  *)
(*   QueueSpec      - DatabaseManager: the offline transaction queue       *)
(*   OverlapSpec    - several rfid:scan_request events, one scan_thread    *)
(*                    each, and rfid:scan_cancel                           *)
(* ScanLiveSpec is ScanSpec with the fairness of the threads' scheduling.  *)
(*                                                                         *)
(* Time in the detector is counted in ticks of 50 ms.  The detector only   *)
(* ever uses differences current_time - x of the timestamps x it keeps, so *)
(* each timestamp is held as its age: the time passed since it was taken,  *)
(* as of the current_time of the next loop iteration.                      *)
(***************************************************************************)
EXTENDS Integers, Sequences, FiniteSets, TLC

(***************************************************************************)
(*                    PART 1 - THE PAPER DETECTOR                          *)
(***************************************************************************)

\* ---- program constants, in ticks of 50 ms
IR_DETECTION_TIME == 4
PollSleep == 2
ClearReads == 3
ClearNeeded == 2
max_clear_checks == 30
PreRollReads == 5
PreRollNeeded == 4

\* ---- configuration values (config.py is not part of the sources): scaled
PAPER_INSERTION_INACTIVITY_TIMEOUT == 12
PAPER_INSERTION_TIMEOUT == 24
MAX_PAPERS_PER_TRANSACTION == 2
\* a loop iteration may take up to Jitter ticks longer than its sleeps
Jitter == 1

NoTime == 0 - 1
Levels == {"HIGH", "LOW"}

\* ages beyond these values are never told apart by the code
AgeCap == IR_DETECTION_TIME + PollSleep

VARIABLES
    d_pc,                       \* "preroll" | "main" | "finalclear" | "done"
    since_start,                \* current_time - initial_start_time (saturating)
    clear_check_count,
    paper_count,
    first_low_age,              \* current_time - first_low_time, NoTime for None
    waiting_for_clear,
    last_paper_age,             \* current_time - last_paper_detection_time
    clear_wait_expired,         \* the final wait ran for max_clear_wait
    d_ret,                      \* what the call returned
    \* history of the polled readings (not program state)
    run_age,                    \* age of the first poll of the current LOW run
    run_dur,                    \* time from its first to its latest poll
    run_counted,                \* increments of paper_count within it
    run_await,                  \* waiting_for_clear at its first poll
    prev_run_dur,               \* run_dur of the latest LOW run a HIGH poll ended
    cleared_since_count         \* a stable HIGH was confirmed since the last count

dvars == <<d_pc, since_start, clear_check_count, paper_count, first_low_age,
           waiting_for_clear, last_paper_age, clear_wait_expired, d_ret,
           run_age, run_dur, run_counted, run_await, prev_run_dur,
           cleared_since_count>>

(***************************************************************************)
(* State of the other parts (declared here so that every action can frame  *)
(* it).                                                                    *)
(***************************************************************************)
VARIABLES
    processing_redemptions,     \* RedemptionHandlerThread.processing_redemptions
    backend_pending,            \* ids the backend lists as pending
    event_queue,                \* redemption:dispense events not yet handled
    created,                    \* ids the backend has ever created
    p_pc, p_list, p_cur,        \* poller: position, fetched list, current item
    i_pc, i_cur,                \* immediate handler: position, current item
    dispense_runs,              \* history: dispense sequences started, per id
    dispense_ok,                \* history: what the path's dispense returned
    dispensed_ids               \* history: ids whose dispense returned True

rvars == <<processing_redemptions, backend_pending, event_queue, created,
           p_pc, p_list, p_cur, i_pc, i_cur, dispense_runs, dispense_ok,
           dispensed_ids>>

VARIABLES
    scan_request_active,        \* RealtimeClient.scan_request_active
    cooldown,                   \* scan_cooldown_until - time.time(), in ticks
    scan_request_lock,          \* who holds RealtimeClient.scan_request_lock
    rfid_lock,                  \* who holds HardwareManager.rfid_lock
    orphans,                    \* abandoned read threads waiting for rfid_lock
    rfid_timeout,               \* config.RFID_TIMEOUT (NoTime: None)
    state,                      \* TransactionProcessor.state
    o_pc, o_timer,              \* orchestrator: position, remaining sleep
    o_waited,                   \* time.time() - wait_start
    o_elapsed,                  \* read_rfid's elapsed, orchestrator call
    scan_became_active,         \* read_rfid's scan_became_active[0]
    o_tag,                      \* rfid_tag returned to process_transaction
    r_pc, r_result,             \* read_card threads, per caller
    h_pc, h_timeout,            \* socket event handler: event, its timeout
    s_pc, s_timer,              \* scan_thread: position, remaining sleep
    s_elapsed, s_timeout, s_tag,\* scan_thread: read_rfid's elapsed, timeout, tag
    entry_active,               \* history: flag when WAITING_FOR_RFID was set
    check_active,               \* history: flag at a check made before reading
    wait_expired,               \* history: the bounded wait ran out
    read_attempted,             \* history: a read thread was started
    read_overlap,               \* history: flag was set while the read ran
    read_in_window,             \* history: the read began in the phase below
    window,                     \* history: phase after a successful scan
    verify_in_window,           \* history: read and passed on in that phase
    verify_overlap              \* history: VERIFYING entered after an overlap

shared == <<scan_request_active, cooldown, scan_request_lock, rfid_timeout>>
ovars == <<state, o_pc, o_timer, o_waited, o_elapsed, scan_became_active, o_tag>>
rdvars == <<r_pc, r_result, rfid_lock, orphans>>
hvars == <<h_pc, h_timeout>>
tvars == <<s_pc, s_timer, s_elapsed, s_timeout, s_tag>>
hist == <<entry_active, check_active, wait_expired, read_attempted,
          read_overlap, read_in_window, window, verify_in_window,
          verify_overlap>>

svars == <<shared, ovars, rdvars, hvars, tvars, hist>>

VARIABLES
    users_cache,                \* DatabaseManager: the users_cache row of the tag
    pending_transactions,       \* DatabaseManager: the pending_transactions rows
    is_online,                  \* SyncManager.is_online
    g_last                      \* history: the latest call of the gateway

gvars == <<users_cache, pending_transactions, is_online, g_last>>

VARIABLES
    x_pc,                       \* main loop / process_transaction: position
    sync_enabled,               \* TransactionProcessor.sync is configured
    lcd,                        \* the operator message shown last
    current_points,             \* process_transaction: current_points
    points_awarded,             \* process_transaction: points_awarded
    total_points,               \* process_transaction: total_points
    x_exc,                      \* the exception raised in this call, if any
    x_prop,                     \* an exception is leaving process_transaction
    \* history of the current call of process_transaction
    seen,                       \* states assigned to self.state so far
    verified,                   \* the identity verification returned valid
    det,                        \* what wait_for_multiple_papers returned
    submit_invoked,             \* the gateway's submit operation was called
    report,                     \* what the gateway reported for the submit
    x_before                    \* users_cache and queue length at the call

xvars == <<x_pc, sync_enabled, lcd, current_points, points_awarded,
           total_points, x_exc, x_prop, seen, verified, det, submit_invoked,
           report, x_before>>

\* the scan part without TransactionProcessor.state
sframe == <<shared, o_pc, o_timer, o_waited, o_elapsed, scan_became_active,
            o_tag, rdvars, hvars, tvars, hist>>

VARIABLES
    a_pc,                       \* dispense_synchronized: position
    servo_cfg,                  \* the SERVO_* values of config
    pwm_ok,                     \* servo_*_pwm are not None
    a_cycles, a_cycle, a_step,  \* cycles, cycle, step
    duty,                       \* duty cycle last applied, per servo
    requested,                  \* angle last passed to _set_servo_angle and applied
    a_fault,                    \* history: a command of the sequence raised
    cleanup_fault,              \* history: a command of the cleanup raised
    a_ret                       \* what dispense_synchronized returned last

avars == <<a_pc, servo_cfg, pwm_ok, a_cycles, a_cycle, a_step, duty, requested,
           a_fault, cleanup_fault, a_ret>>

VARIABLES
    l_pc,                       \* per thread: the operation it is about to do
    l_held                      \* per thread: the locks it holds

lvars == <<l_pc, l_held>>

VARIABLES
    e_reward_type,              \* the rewardType of the redemption at hand
    e_paper_count,              \* paper_count of lines 1865 / 1958
    e_cycles                    \* cycles passed to dispense_synchronized

evars == <<e_reward_type, e_paper_count, e_cycles>>

VARIABLES
    q_table,                    \* the rows of the pending_transactions table
    q_marked,                   \* history: ids mark_transaction_synced was called on
    q_run                       \* ids left in the running sync's pending list

qvars == <<q_table, q_marked, q_run>>

VARIABLES
    k_pc,                       \* per scan request: position of its scan_thread
    k_tag,                      \* per scan request: what read_rfid returned
    k_cancelled,                \* history: rfid:scan_cancel came for the request
    k_result,                   \* history: the rfid:scan_result emitted
    k_cooldown                  \* history: the thread set scan_cooldown_until

kvars == <<k_pc, k_tag, k_cancelled, k_result, k_cooldown>>

\* the parts added after the actuator
pvars == <<lvars, evars, qvars, kvars>>

\* the parts added to the three above
nvars == <<gvars, xvars, avars, pvars>>

vars == <<dvars, svars, rvars, nvars>>

NotReturned == [kind |-> "running", success |-> FALSE, count |-> 0]
ReturnTuple(s, c) == [kind |-> "tuple", success |-> s, count |-> c]
\* leaving the function body without a return statement yields None
ReturnNone == [kind |-> "None", success |-> FALSE, count |-> 0]

Min(a, b) == IF a < b THEN a ELSE b

\* an age after dt more ticks, saturating at cap
Older(age, dt, cap) == IF age = NoTime THEN NoTime ELSE Min(age + dt, cap)

\* ---- the tests of the main loop
StableLowLate(elapsed) == elapsed > IR_DETECTION_TIME
\* line 1324: LOW has been stable for the required time
StableLow(elapsed) == elapsed >= IR_DETECTION_TIME
\* line 1304: the sensor is confirmed clear
StableClear(highs) == highs >= ClearNeeded
CapReachedLate(c) == c > MAX_PAPERS_PER_TRANSACTION
\* line 1343: the cap on papers per transaction
CapReached(c) == c >= MAX_PAPERS_PER_TRANSACTION
NoSkipWhileWaiting(raw) == FALSE
\* lines 1309-1312: still LOW while waiting for clear: sleep and continue
SkipWhileWaiting(raw) == raw = "LOW"
KeepOnHigh(raw, flt) == flt
\* lines 1353-1358: a HIGH reading resets the candidate timer
ResetOnHigh(raw, flt) == IF raw = "HIGH" THEN NoTime ELSE flt
\* lines 1366-1368: time_since_last_paper >= inactivity_timeout
InactivityElapsed(sinceLast) ==
    sinceLast # NoTime /\ sinceLast >= PAPER_INSERTION_INACTIVITY_TIMEOUT
\* lines 1402-1403; initial_start_time is taken before the pre-roll
InitialElapsed(sinceStart, c, sinceLast) ==
    c = 0 /\ sinceLast = NoTime /\ sinceStart >= PAPER_INSERTION_TIMEOUT
InitialTimeoutAsSuccess == ReturnTuple(TRUE, 0)
\* line 1407
InitialTimeoutResult == ReturnTuple(FALSE, 0)
\* lines 1392-1399
InactivityResult(c) == IF c > 0 THEN ReturnTuple(TRUE, c) ELSE ReturnTuple(FALSE, 0)

\* ---- lines 1270-1283: one iteration of the pre-roll loop
DetectorPreRoll ==
    /\ d_pc = "preroll"
    /\ \E cur \in Levels, highs \in 0..PreRollReads :
         LET checked == cur = "HIGH"
             clear   == checked /\ highs >= PreRollNeeded
             spent   == (IF checked THEN PreRollReads * PollSleep ELSE 0)
                          + (IF clear THEN 0 ELSE PollSleep)
             n       == IF clear THEN clear_check_count ELSE clear_check_count + 1
         IN  /\ clear_check_count' = n
             /\ since_start' = Min(since_start + spent, PAPER_INSERTION_TIMEOUT)
             /\ d_pc' = IF clear \/ n >= max_clear_checks THEN "main" ELSE "preroll"
    /\ UNCHANGED <<paper_count, first_low_age, waiting_for_clear, last_paper_age,
                   clear_wait_expired, d_ret, run_age, run_dur, run_counted,
                   run_await, prev_run_dur, cleared_since_count>>
    /\ UNCHANGED <<svars, rvars, nvars>>

\* ---- lines 1289-1409: one iteration of the main detection loop.  The ages
\* held in the state are those at this iteration's current_time.
DetectorPoll ==
    /\ d_pc = "main"
    /\ \E raw \in Levels, highs \in 0..ClearReads, j \in 0..Jitter :
         LET skipped  == waiting_for_clear /\ SkipWhileWaiting(raw)
             checked  == waiting_for_clear /\ raw = "HIGH"
             cleared  == checked /\ StableClear(highs)
             wfc1     == IF cleared THEN FALSE ELSE waiting_for_clear
             flt1     == IF cleared THEN NoTime ELSE first_low_age
             \* first_low_time = current_time: age 0
             flt2     == IF raw = "LOW" /\ flt1 = NoTime THEN 0 ELSE flt1
             counted  == ~skipped /\ raw = "LOW" /\ StableLow(flt2)
             count1   == IF counted THEN paper_count + 1 ELSE paper_count
             last1    == IF counted THEN 0 ELSE last_paper_age
             capped   == counted /\ CapReached(count1)
             wfc2     == IF counted /\ ~capped THEN TRUE ELSE wfc1
             flt3     == IF counted /\ ~capped THEN NoTime ELSE ResetOnHigh(raw, flt2)
             newRun   == run_age = NoTime
             run1     == IF newRun THEN 0 ELSE run_age
             \* the time this iteration takes: stability reads, sleep, jitter
             dt       == (IF checked THEN ClearReads ELSE 0) + PollSleep + j
             leaves   == ~skipped /\ (capped \/ InactivityElapsed(last1)
                                       \/ InitialElapsed(since_start, count1, last1))
             pass(a, cap) == IF leaves THEN a ELSE Older(a, dt, cap)
         IN  /\ IF raw = "LOW"
                  THEN /\ run_age' = pass(run1, AgeCap)
                       /\ run_dur' = Min(run1, AgeCap)
                       /\ run_await' = IF newRun THEN waiting_for_clear ELSE run_await
                       /\ run_counted' = (IF newRun THEN 0 ELSE run_counted)
                                            + (IF counted THEN 1 ELSE 0)
                       /\ UNCHANGED prev_run_dur
                  ELSE /\ prev_run_dur' = IF newRun THEN prev_run_dur ELSE run_dur
                       /\ run_age' = NoTime
                       /\ run_dur' = NoTime
                       /\ run_counted' = 0
                       /\ run_await' = FALSE
             /\ cleared_since_count' =
                    IF counted THEN FALSE
                    ELSE IF cleared THEN TRUE ELSE cleared_since_count
             /\ since_start' = pass(since_start, PAPER_INSERTION_TIMEOUT)
             /\ IF skipped
                  THEN /\ first_low_age' = pass(first_low_age, AgeCap)
                       /\ last_paper_age' =
                             pass(last_paper_age, PAPER_INSERTION_INACTIVITY_TIMEOUT)
                       /\ UNCHANGED <<d_pc, paper_count, waiting_for_clear,
                                      clear_wait_expired, d_ret>>
                  ELSE /\ paper_count' = count1
                       /\ last_paper_age' =
                             pass(last1, PAPER_INSERTION_INACTIVITY_TIMEOUT)
                       /\ waiting_for_clear' = wfc2
                       /\ first_low_age' = pass(flt3, AgeCap)
                       /\ UNCHANGED clear_wait_expired
                       /\ IF capped
                            THEN d_pc' = "done" /\ d_ret' = ReturnNone
                            ELSE IF InactivityElapsed(last1)
                            THEN d_pc' = "finalclear" /\ UNCHANGED d_ret
                            ELSE IF InitialElapsed(since_start, count1, last1)
                            THEN d_pc' = "done" /\ d_ret' = InitialTimeoutResult
                            ELSE UNCHANGED <<d_pc, d_ret>>
    /\ UNCHANGED clear_check_count
    /\ UNCHANGED <<svars, rvars, nvars>>

\* ---- lines 1375-1399: the final wait for a clear sensor, then the return.
\* The loop ends when a HIGH reading is confirmed stable, or when
\* max_clear_wait has passed since clear_wait_start.
DetectorFinalClear ==
    /\ d_pc = "finalclear"
    /\ \E confirmed \in BOOLEAN : clear_wait_expired' = ~confirmed
    /\ d_pc' = "done"
    /\ d_ret' = InactivityResult(paper_count)
    /\ UNCHANGED <<since_start, clear_check_count, paper_count, first_low_age,
                   waiting_for_clear, last_paper_age, run_age, run_dur,
                   run_counted, run_await, prev_run_dur, cleared_since_count>>
    /\ UNCHANGED <<svars, rvars, nvars>>

DetectorNext == DetectorPreRoll \/ DetectorPoll \/ DetectorFinalClear

(***************************************************************************)
(*                    Claims about the paper detector                      *)
(***************************************************************************)
SessionRunning == d_pc = "main"
LongLowRun ==
    /\ SessionRunning
    /\ run_dur # NoTime
    /\ run_dur >= IR_DETECTION_TIME

\* C6 (as stated): every maximal run of LOW polls that has lasted at least the
\* debounce duration has incremented paper_count exactly once, and no run
\* increments it more than once, while the session has not ended.
C6_EveryLongLowRunCountedOnce ==
    /\ run_counted <= 1
    /\ LongLowRun => run_counted = 1

\* C6 (amended): a maximal run of LOW polls that began while waiting_for_clear
\* was false and has lasted at least the debounce duration has incremented
\* paper_count exactly once; a run that began while waiting_for_clear was
\* still true has incremented it zero times; no run increments it twice.
C6_LongLowRunCountedOnceUnlessAwaitingClear ==
    /\ run_counted <= 1
    /\ LongLowRun => run_counted = (IF run_await THEN 0 ELSE 1)

\* after a short LOW run, a debounced LOW run was counted once and is still LOW
C6_Witness ==
    /\ LongLowRun /\ ~run_await /\ run_counted = 1 /\ paper_count = 1
    /\ prev_run_dur >= 0

\* C7: paper_count is never incremented while waiting_for_clear is true; after
\* a unit is counted the next one is counted only after a HIGH reading was
\* confirmed stable and waiting_for_clear was cleared.
C7_NoCountWhileAwaitingClear ==
    [][paper_count' > paper_count =>
          /\ ~waiting_for_clear
          /\ paper_count > 0 => cleared_since_count]_vars

\* a second unit has been counted
C7_Witness == paper_count >= 2 /\ run_counted = 1

\* C8: a LOW run that has not lasted the debounce duration has not
\* incremented paper_count, and the candidate timer only ever holds the
\* start of the current LOW run: a HIGH poll resets it.
C8_ShortLowRunNeverCounted ==
    /\ (run_dur # NoTime /\ run_dur < IR_DETECTION_TIME) => run_counted = 0
    /\ first_low_age # NoTime => first_low_age = run_age
    /\ run_age = NoTime => first_low_age = NoTime

\* a short LOW run was ended by HIGH, and the next run was counted once its
\* own duration reached the debounce duration
C8_Witness ==
    /\ prev_run_dur >= 0 /\ prev_run_dur < IR_DETECTION_TIME
    /\ run_counted = 1 /\ paper_count = 1
    /\ run_dur = IR_DETECTION_TIME

\* C9: the detector never returns success with count 0; a session that ends
\* with no unit detected returns (False, 0).
C9_NoZeroCountSuccess ==
    /\ (d_ret.kind = "tuple" /\ d_ret.success) => d_ret.count > 0
    /\ (d_pc = "done" /\ paper_count = 0) => d_ret = ReturnTuple(FALSE, 0)

\* the initial timeout elapsed with no unit detected
C9_Witness == d_pc = "done" /\ paper_count = 0 /\ d_ret = ReturnTuple(FALSE, 0)

\* C10: paper_count never exceeds MAX_PAPERS_PER_TRANSACTION, and the main
\* loop is left as soon as the cap is reached.
C10_CountNeverExceedsCap ==
    /\ paper_count <= MAX_PAPERS_PER_TRANSACTION
    /\ paper_count = MAX_PAPERS_PER_TRANSACTION => ~SessionRunning

\* the cap was reached
C10_Witness == paper_count = MAX_PAPERS_PER_TRANSACTION /\ d_pc = "done"

\* C11: the detector terminates for every sensor behaviour: every iteration of
\* the main loop that starts when at least one unit has been counted and
\* inactivity_timeout has elapsed since the last detection either counts a new
\* unit or leaves the loop for the bounded final wait and the return, also
\* when the sensor stays LOW after the last counted unit.
C11_LeavesLoopOnceInactivityElapsed ==
    [][(/\ SessionRunning
        /\ paper_count >= 1
        /\ InactivityElapsed(last_paper_age))
          => (d_pc' # "main" \/ paper_count' > paper_count)]_vars

\* C26: when paper_count reaches MAX_PAPERS_PER_TRANSACTION the detector
\* stops and returns a success result carrying that count (with which the
\* orchestrator goes on to SUBMITTING).
C26_CapReachedReturnsSuccess ==
    (d_pc = "done" /\ paper_count = MAX_PAPERS_PER_TRANSACTION) =>
        d_ret = ReturnTuple(TRUE, MAX_PAPERS_PER_TRANSACTION)


\* the state of the detection cycle that the two flags of lines 1256-1257
\* stand for; COUNTED is passed within one loop iteration (lines 1326-1350)
DetectorState ==
    IF waiting_for_clear /\ first_low_age # NoTime THEN "BOTH_SET"
    ELSE IF waiting_for_clear THEN "AWAITING_CLEAR"
    ELSE IF first_low_age # NoTime THEN "CANDIDATE_LOW"
    ELSE "IDLE"

\* C31: the candidate timestamp and waiting_for_clear are never both set, and
\* the flags only move IDLE -> CANDIDATE_LOW on a LOW reading, CANDIDATE_LOW
\* -> IDLE on a HIGH reading with nothing counted, CANDIDATE_LOW -> (counted)
\* -> AWAITING_CLEAR on a LOW reading once LOW has lasted IR_DETECTION_TIME,
\* and AWAITING_CLEAR -> IDLE on a confirmed HIGH; a sheet is counted only on
\* the way out of CANDIDATE_LOW, and a HIGH reading always ends
\* CANDIDATE_LOW.
C31_FlagsRefineDetectionCycle ==
    /\ [](DetectorState # "BOTH_SET")
    /\ [][DetectorState' # DetectorState =>
            \/ /\ DetectorState = "IDLE" /\ DetectorState' = "CANDIDATE_LOW"
               /\ run_age' # NoTime /\ paper_count' = paper_count
            \/ /\ DetectorState = "CANDIDATE_LOW" /\ DetectorState' = "IDLE"
               /\ run_age' = NoTime /\ paper_count' = paper_count
            \/ /\ DetectorState = "CANDIDATE_LOW"
               /\ DetectorState' = "AWAITING_CLEAR"
               /\ run_age' # NoTime /\ first_low_age >= IR_DETECTION_TIME
               /\ paper_count' = paper_count + 1
            \/ /\ DetectorState = "AWAITING_CLEAR" /\ DetectorState' = "IDLE"
               /\ run_age' = NoTime /\ cleared_since_count'
               /\ paper_count' = paper_count]_vars
    /\ [][paper_count' # paper_count =>
            /\ DetectorState = "CANDIDATE_LOW"
            /\ first_low_age >= IR_DETECTION_TIME
            /\ DetectorState' = "AWAITING_CLEAR" \/ d_pc' = "done"]_vars
    /\ [][(d_pc = "main" /\ DetectorState = "CANDIDATE_LOW"
              /\ run_age' = NoTime) => DetectorState' = "IDLE"]_vars

\* a second cycle is under way: after one counted sheet and a confirmed clear
\* sensor a new LOW run has set the candidate timestamp
C31_Witness ==
    /\ d_pc = "main" /\ paper_count = 1 /\ cleared_since_count
    /\ DetectorState = "CANDIDATE_LOW" /\ first_low_age > 0

(***************************************************************************)
(*                  PART 2 - THE REDEMPTION DISPATCHER                     *)
(***************************************************************************)

\* work items the backend may create
MaxRedemptions == 2

RedemptionIds == 1..MaxRedemptions

\* ---- bound: symbols in a reward descriptor
MaxDescriptorLen == 5

\* A reward descriptor is written as a sequence of symbols; "sheet" and
\* "Sheet" stand for the words.
Symbols == {" ", "1", "5", "sheet", "Sheet"}

\* A reward descriptor as the backend's JSON carries it: a string, or a value
\* that is not a string.
RewardTypes ==
    { [type |-> "str", text |-> <<"1", " ", "sheet">>],
      [type |-> "str", text |-> <<"5", " ", "Sheet">>],
      [type |-> "num", text |-> <<>>] }

NoItem == [id |-> 0, rewardType |-> [type |-> "str", text |-> <<>>]]

\* "if not reward_type" (line 1693): the empty string is falsy
Truthy(rt) == rt.type # "str" \/ rt.text # <<>>

\* str.lower(), line 1698
Lower(text) ==
    [i \in 1..Len(text) |-> IF text[i] = "Sheet" THEN "sheet" ELSE text[i]]

\* Python's "pat in text" for strings
Contains(text, pat) ==
    \E i \in 1..(Len(text) - Len(pat) + 1) :
        SubSeq(text, i, i + Len(pat) - 1) = pat

\* line 1701: "5 sheet" in reward_lower or " 5 " in reward_lower
BulkPattern(reward_lower) ==
    \/ Contains(reward_lower, <<"5", " ", "sheet">>)
    \/ Contains(reward_lower, <<" ", "5", " ">>)

\* line 1704: "1 sheet" in reward_lower or " 1 " in reward_lower
SmallPattern(reward_lower) ==
    \/ Contains(reward_lower, <<"1", " ", "sheet">>)
    \/ Contains(reward_lower, <<" ", "1", " ">>)

\* extract_paper_count_from_reward_type: reward_type.lower() raises
\* AttributeError for a truthy value that is not a string
ExtractRaises(rt) == Truthy(rt) /\ rt.type # "str"
extract_paper_count_from_reward_type(rt) ==
    IF ~Truthy(rt) THEN 1
    ELSE IF BulkPattern(Lower(rt.text)) THEN 5
    ELSE IF SmallPattern(Lower(rt.text)) THEN 1
    ELSE 1

NeverAlreadyProcessing(id) == FALSE
\* the membership test of the check-and-insert, under processing_lock
AlreadyProcessing(id) == id \in processing_redemptions

\* the duplicate's id taken out of the set, as the finally clauses do
SkipDiscards(set, id) == set \ {id}
\* lines 1857-1859 and 1946-1948: "continue" / "return False" inside the
\* with block, before the try whose finally discards the id
AfterSkip(set, id) == set

ReportAlways(success) == "report"
\* lines 1886-1888 and 1975-1977: "if success:" before
\* mark_redemption_dispensed
ReportIfSucceeded(success) == IF success THEN "report" ELSE "remove"

\* the history counter tells zero, one and "more than one" apart
OneMore(n) == IF n < 2 THEN n + 1 ELSE n

Without(seq, id) == SelectSeq(seq, LAMBDA it : it.id # id)

\* ---- the backend records a redemption; it is listed as pending and, when
\* the socket is connected, announced by a redemption:dispense event
BackendCreate ==
    /\ Cardinality(created) < MaxRedemptions
    /\ \E rt \in RewardTypes, announced \in BOOLEAN :
         LET id == Cardinality(created) + 1     \* the backend numbers them in order
             item == [id |-> id, rewardType |-> rt]
         IN  /\ created' = created \cup {id}
             /\ backend_pending' = Append(backend_pending, item)
             /\ event_queue' = IF announced THEN Append(event_queue, item)
                                             ELSE event_queue
    /\ UNCHANGED <<processing_redemptions, p_pc, p_list, p_cur, i_pc, i_cur,
                   dispense_runs>>
    /\ UNCHANGED <<dispense_ok, dispensed_ids>>
    /\ UNCHANGED <<dvars, svars, nvars>>

\* ---- run, lines 1841-1843: poll for pending redemptions
PollerFetch ==
    /\ p_pc = "poll"
    /\ backend_pending # <<>>
    /\ p_list' = backend_pending
    /\ p_pc' = "loop"
    /\ UNCHANGED <<processing_redemptions, backend_pending, event_queue, created,
                   p_cur, i_pc, i_cur, dispense_runs>>
    /\ UNCHANGED <<dispense_ok, dispensed_ids>>
    /\ UNCHANGED <<dvars, svars, nvars>>

\* ---- run, lines 1847-1862: next item of the list, check-and-insert under
\* processing_lock
PollerCheck ==
    /\ p_pc = "loop"
    /\ IF p_list = <<>>
         THEN /\ p_pc' = "poll"
              /\ UNCHANGED <<processing_redemptions, p_list, p_cur>>
         ELSE LET item == Head(p_list)
              IN  /\ p_list' = Tail(p_list)
                  /\ p_cur' = item
                  /\ IF AlreadyProcessing(item.id)
                       THEN /\ p_pc' = "skip"
                            /\ processing_redemptions' =
                                   AfterSkip(processing_redemptions, item.id)
                       ELSE /\ processing_redemptions' =
                                   processing_redemptions \cup {item.id}
                            /\ p_pc' = "prepare"
    /\ UNCHANGED <<backend_pending, event_queue, created, i_pc, i_cur,
                   dispense_runs>>
    /\ UNCHANGED <<dispense_ok, dispensed_ids>>
    /\ UNCHANGED <<dvars, svars, nvars>>

\* ---- run, lines 1858-1859: the duplicate is logged and the loop continues
PollerSkip ==
    /\ p_pc = "skip"
    /\ p_pc' = "loop"
    /\ p_cur' = NoItem
    /\ UNCHANGED <<processing_redemptions, backend_pending, event_queue, created,
                   p_list, i_pc, i_cur, dispense_runs>>
    /\ UNCHANGED <<dispense_ok, dispensed_ids>>
    /\ UNCHANGED <<dvars, svars, nvars>>

\* ---- run, lines 1864-1879: paper count and LCD messages, outside the try;
\* an exception here reaches the handler of line 1929 and ends the loop
PollerPrepare ==
    /\ p_pc = "prepare"
    /\ IF ExtractRaises(p_cur.rewardType)
         THEN /\ p_pc' = "poll"
              /\ p_list' = <<>>
              /\ p_cur' = NoItem
         ELSE /\ p_pc' = "dispense"
              /\ UNCHANGED <<p_list, p_cur>>
    /\ UNCHANGED <<processing_redemptions, backend_pending, event_queue, created,
                   i_pc, i_cur, dispense_runs>>
    /\ UNCHANGED <<dispense_ok, dispensed_ids>>
    /\ UNCHANGED <<dvars, svars, nvars>>

\* ---- run, line 1883: dispense_synchronized begins
PollerDispenseStart ==
    /\ p_pc = "dispense"
    /\ dispense_runs' = [dispense_runs EXCEPT ![p_cur.id] = OneMore(@)]
    /\ p_pc' = "dispensing"
    /\ UNCHANGED <<processing_redemptions, backend_pending, event_queue, created,
                   p_list, p_cur, i_pc, i_cur>>
    /\ UNCHANGED <<dispense_ok, dispensed_ids>>
    /\ UNCHANGED <<dvars, svars, nvars>>

\* ---- run, lines 1883-1886: dispense_synchronized returns True or False
PollerDispenseEnd ==
    /\ p_pc = "dispensing"
    /\ \E success \in BOOLEAN :
         /\ p_pc' = ReportIfSucceeded(success)
         /\ dispense_ok' = [dispense_ok EXCEPT !["poller"] =
                                IF success THEN "True" ELSE "False"]
         /\ dispensed_ids' = IF success THEN dispensed_ids \cup {p_cur.id}
                                         ELSE dispensed_ids
    /\ UNCHANGED <<processing_redemptions, backend_pending, event_queue, created,
                   p_list, p_cur, i_pc, i_cur, dispense_runs>>
    /\ UNCHANGED <<dvars, svars, nvars>>

\* ---- run, lines 1888-1903: mark_redemption_dispensed; the backend takes the
\* id off its pending list when the call succeeds; the call may also raise
PollerReport ==
    /\ p_pc = "report"
    /\ \E outcome \in {"ok", "failed", "raised"} :
         /\ backend_pending' = IF outcome = "ok" THEN Without(backend_pending, p_cur.id)
                                                  ELSE backend_pending
         /\ p_pc' = IF outcome = "raised" THEN "remove_raised" ELSE "remove"
    /\ UNCHANGED <<processing_redemptions, event_queue, created, p_list, p_cur,
                   i_pc, i_cur, dispense_runs>>
    /\ UNCHANGED <<dispense_ok, dispensed_ids>>
    /\ UNCHANGED <<dvars, svars, nvars>>

\* ---- run, lines 1910-1914: the finally clause
PollerRemove ==
    /\ p_pc \in {"remove", "remove_raised"}
    /\ processing_redemptions' = processing_redemptions \ {p_cur.id}
    /\ p_cur' = NoItem
    /\ IF p_pc = "remove_raised"
         THEN p_pc' = "poll" /\ p_list' = <<>>
         ELSE p_pc' = "loop" /\ UNCHANGED p_list
    /\ UNCHANGED <<backend_pending, event_queue, created, i_pc, i_cur,
                   dispense_runs>>
    /\ dispense_ok' = [dispense_ok EXCEPT !["poller"] = "none"]
    /\ UNCHANGED dispensed_ids
    /\ UNCHANGED <<dvars, svars, nvars>>

\* ---- process_redemption_immediate, lines 1944-1951: check-and-insert under
\* processing_lock
ImmediateCheck ==
    /\ i_pc = "idle"
    /\ event_queue # <<>>
    /\ LET item == Head(event_queue)
       IN  /\ event_queue' = Tail(event_queue)
           /\ i_cur' = item
           /\ IF AlreadyProcessing(item.id)
                THEN /\ i_pc' = "skip"
                     /\ processing_redemptions' =
                            AfterSkip(processing_redemptions, item.id)
                ELSE /\ processing_redemptions' =
                            processing_redemptions \cup {item.id}
                     /\ i_pc' = "prepare"
    /\ UNCHANGED <<backend_pending, created, p_pc, p_list, p_cur, dispense_runs>>
    /\ UNCHANGED <<dispense_ok, dispensed_ids>>
    /\ UNCHANGED <<dvars, svars, nvars>>

\* ---- process_redemption_immediate, lines 1947-1948: return False
ImmediateSkip ==
    /\ i_pc = "skip"
    /\ i_pc' = "idle"
    /\ i_cur' = NoItem
    /\ UNCHANGED <<processing_redemptions, backend_pending, event_queue, created,
                   p_pc, p_list, p_cur, dispense_runs>>
    /\ UNCHANGED <<dispense_ok, dispensed_ids>>
    /\ UNCHANGED <<dvars, svars, nvars>>

\* ---- process_redemption_immediate, lines 1953-1968, outside the try; an
\* exception here is caught by on_redemption_dispense (realtime_client 178)
ImmediatePrepare ==
    /\ i_pc = "prepare"
    /\ IF ExtractRaises(i_cur.rewardType)
         THEN /\ i_pc' = "idle"
              /\ i_cur' = NoItem
         ELSE /\ i_pc' = "dispense"
              /\ UNCHANGED i_cur
    /\ UNCHANGED <<processing_redemptions, backend_pending, event_queue, created,
                   p_pc, p_list, p_cur, dispense_runs>>
    /\ UNCHANGED <<dispense_ok, dispensed_ids>>
    /\ UNCHANGED <<dvars, svars, nvars>>

\* ---- process_redemption_immediate, line 1973: dispense_synchronized begins
ImmediateDispenseStart ==
    /\ i_pc = "dispense"
    /\ dispense_runs' = [dispense_runs EXCEPT ![i_cur.id] = OneMore(@)]
    /\ i_pc' = "dispensing"
    /\ UNCHANGED <<processing_redemptions, backend_pending, event_queue, created,
                   p_pc, p_list, p_cur, i_cur>>
    /\ UNCHANGED <<dispense_ok, dispensed_ids>>
    /\ UNCHANGED <<dvars, svars, nvars>>

\* ---- process_redemption_immediate, lines 1973-1975
ImmediateDispenseEnd ==
    /\ i_pc = "dispensing"
    /\ \E success \in BOOLEAN :
         /\ i_pc' = ReportIfSucceeded(success)
         /\ dispense_ok' = [dispense_ok EXCEPT !["immediate"] =
                                IF success THEN "True" ELSE "False"]
         /\ dispensed_ids' = IF success THEN dispensed_ids \cup {i_cur.id}
                                         ELSE dispensed_ids
    /\ UNCHANGED <<processing_redemptions, backend_pending, event_queue, created,
                   p_pc, p_list, p_cur, i_cur, dispense_runs>>
    /\ UNCHANGED <<dvars, svars, nvars>>

\* ---- process_redemption_immediate, lines 1977-1994; whether the call
\* returns or raises, the finally clause comes next
ImmediateReport ==
    /\ i_pc = "report"
    /\ \E outcome \in {"ok", "failed", "raised"} :
         backend_pending' = IF outcome = "ok" THEN Without(backend_pending, i_cur.id)
                                                ELSE backend_pending
    /\ i_pc' = "remove"
    /\ UNCHANGED <<processing_redemptions, event_queue, created, p_pc, p_list,
                   p_cur, i_cur, dispense_runs>>
    /\ UNCHANGED <<dispense_ok, dispensed_ids>>
    /\ UNCHANGED <<dvars, svars, nvars>>

\* ---- process_redemption_immediate, lines 2002-2006: the finally clause
ImmediateRemove ==
    /\ i_pc = "remove"
    /\ processing_redemptions' = processing_redemptions \ {i_cur.id}
    /\ i_cur' = NoItem
    /\ i_pc' = "idle"
    /\ UNCHANGED <<backend_pending, event_queue, created, p_pc, p_list, p_cur,
                   dispense_runs>>
    /\ dispense_ok' = [dispense_ok EXCEPT !["immediate"] = "none"]
    /\ UNCHANGED dispensed_ids
    /\ UNCHANGED <<dvars, svars, nvars>>

RedemptionNext ==
    \/ BackendCreate
    \/ PollerFetch \/ PollerCheck \/ PollerSkip \/ PollerPrepare
    \/ PollerDispenseStart \/ PollerDispenseEnd \/ PollerReport \/ PollerRemove
    \/ ImmediateCheck \/ ImmediateSkip \/ ImmediatePrepare
    \/ ImmediateDispenseStart \/ ImmediateDispenseEnd \/ ImmediateReport
    \/ ImmediateRemove

(***************************************************************************)
(*                 Claims about the redemption dispatcher                  *)
(***************************************************************************)
\* a path is working on an id from its insertion to its finally clause
PollerHolds(id) ==
    /\ p_cur.id = id
    /\ p_pc \in {"prepare", "dispense", "dispensing", "report", "remove",
                  "remove_raised"}
ImmediateHolds(id) ==
    /\ i_cur.id = id
    /\ i_pc \in {"prepare", "dispense", "dispensing", "report", "remove"}

\* C1: the poller path and the immediate path are never both working on the
\* same id, so their dispense sequences for one id never overlap: the path
\* that reaches the check-and-insert while the other holds the id skips it.
C1_OneDispensePerIdAtATime ==
    \A id \in RedemptionIds : ~(PollerHolds(id) /\ ImmediateHolds(id))

\* the immediate path skipped an id whose dispense sequence the poller is
\* running
C1_Witness ==
    \E id \in RedemptionIds :
        /\ PollerHolds(id) /\ p_pc = "dispensing"
        /\ i_pc = "skip" /\ i_cur.id = id
        /\ dispense_runs[id] = 1

\* C2: an id is in the processing set only while a path is working on it.
C2_NoIdLeftInProcessingSet ==
    \A id \in processing_redemptions : PollerHolds(id) \/ ImmediateHolds(id)


\* the steps a path takes for the work item it holds
PathSteps(pc) ==
    IF pc = "prepare" THEN {"dispense"}
    ELSE IF pc = "dispense" THEN {"dispensing"}
    ELSE IF pc = "dispensing" THEN {"report", "remove"}
    ELSE IF pc = "report" THEN {"remove", "remove_raised"}
    ELSE {}

\* C29: for every work item a path takes its steps in the order insertion,
\* dispense sequence, completion report, removal: the dispense sequence and
\* the report happen with the id in the processing set, the report is sent
\* only when the dispense sequence returned success, the backend's pending
\* list loses an id only in a report step, and the id leaves the set only
\* in the finally clause that follows the dispense sequence or the report.
C29_InsertDispenseReportRemove ==
    /\ [](\A id \in RedemptionIds :
             (PollerHolds(id) \/ ImmediateHolds(id))
                => id \in processing_redemptions)
    /\ [](/\ p_pc = "report" => dispense_ok["poller"] = "True"
          /\ i_pc = "report" => dispense_ok["immediate"] = "True")
    /\ [][/\ (p_pc' # p_pc /\ PathSteps(p_pc) # {}) =>
                (p_pc' \in PathSteps(p_pc) \/ p_pc' = "poll")
          /\ (i_pc' # i_pc /\ PathSteps(i_pc) # {}) =>
                (i_pc' \in PathSteps(i_pc) \/ i_pc' = "idle")
          /\ (p_pc' \in {"remove", "remove_raised"} /\ p_pc' # p_pc) =>
                p_pc \in {"dispensing", "report"}
          /\ (i_pc' = "remove" /\ i_pc' # i_pc) =>
                i_pc \in {"dispensing", "report"}]_vars
    /\ [][Len(backend_pending') < Len(backend_pending) =>
             \/ p_pc = "report" /\ p_pc' # "report"
                   /\ p_cur.id \in processing_redemptions
             \/ i_pc = "report" /\ i_pc' # "report"
                   /\ i_cur.id \in processing_redemptions]_vars
    /\ [][\A id \in processing_redemptions \ processing_redemptions' :
             \/ PollerHolds(id) /\ p_pc \in {"remove", "remove_raised"}
             \/ ImmediateHolds(id) /\ i_pc = "remove"]_vars

\* the poller is sending the report of an id whose dispense sequence ran
\* once and succeeded while the immediate path is removing another id after
\* a failed dispense sequence
C29_Witness ==
    /\ p_pc = "report" /\ dispense_ok["poller"] = "True"
    /\ p_cur.id \in processing_redemptions
    /\ dispense_runs[p_cur.id] = 1
    /\ i_pc = "remove" /\ dispense_ok["immediate"] = "False"
    /\ i_cur.id \in processing_redemptions

\* C30: a path that finds the id already in the processing set skips the
\* item: no dispense sequence, no completion report and no exception come
\* of it (the path goes on with its next item), and the skipping path's
\* steps leave the processing set as it was, the id still in it for the
\* path that owns it.
C30_DuplicateSkipped ==
    [][/\ (p_pc' = "skip" /\ p_pc # "skip") =>
             /\ AlreadyProcessing(p_cur'.id)
             /\ UNCHANGED <<processing_redemptions, dispense_runs,
                            backend_pending, dispense_ok>>
       /\ (i_pc' = "skip" /\ i_pc # "skip") =>
             /\ AlreadyProcessing(i_cur'.id)
             /\ UNCHANGED <<processing_redemptions, dispense_runs,
                            backend_pending, dispense_ok>>
       /\ (p_pc = "skip" /\ p_pc' # "skip") =>
             /\ p_pc' = "loop"
             /\ UNCHANGED <<processing_redemptions, dispense_runs,
                            backend_pending, dispense_ok>>
       /\ (i_pc = "skip" /\ i_pc' # "skip") =>
             /\ i_pc' = "idle"
             /\ UNCHANGED <<processing_redemptions, dispense_runs,
                            backend_pending, dispense_ok>>]_vars

\* the poller skipped an id whose completion report the immediate path is
\* sending
C30_Witness ==
    \E id \in RedemptionIds :
        /\ p_pc = "skip" /\ p_cur.id = id
        /\ ImmediateHolds(id) /\ i_pc = "report"
        /\ id \in processing_redemptions


\* C34: no dispense sequence is started for an id whose dispense sequence
\* has already returned success.
C34_NoSecondDispenseAfterSuccess ==
    [][\A id \in RedemptionIds :
          dispense_runs'[id] # dispense_runs[id] => id \notin dispensed_ids]_vars


\* C35: the two paths are never inside dispense_synchronized at the same
\* time, so their commands to the two servos never interleave.
C35_OneDispenseSequenceAtATime ==
    ~(p_pc = "dispensing" /\ i_pc = "dispensing")

(***************************************************************************)
(*              PART 3 - THE EXCLUSIVE SCAN AND THE ORCHESTRATOR           *)
(*                                                                         *)
(* Threads: the orchestrator (process_transaction), the read_card thread   *)
(* of each read_rfid call, the socket event handler, and scan_thread.      *)
(* Time is counted in ticks of 0.5 s, the polling period of both the wait  *)
(* loop and read_rfid's monitor loop.  A program step takes no time; time  *)
(* advances when every thread sleeps, blocks on a lock or waits for the     *)
(* card.  scan_cooldown_until is only ever compared with time.time(), so   *)
(* it is held as the difference cooldown = scan_cooldown_until - now.      *)
(* The RFID reader is taken to have been initialised.                      *)
(***************************************************************************)

\* ---- program constants, in ticks of 0.5 s
WaitPoll == 1
check_interval == 1
ScanPreSleep == 1
SuccessDisplay == 6
cooldown_duration == 12
FailDisplay == 4
WelcomeDelay == 4
SkipBefore == 2
SkipAfter == 6

\* ---- bounds: configured read timeout, scan timeouts a request may carry,
\* abandoned read threads told apart
RFID_TIMEOUT == 3
ShortScan == 2
MaxOrphans == 1

\* ---- max_wait_time of line 1418 is 60 s; the wait is shortened here, which
\* changes when it runs out and nothing else
max_wait_time == 6

\* a scan timeout that outlasts the orchestrator's bounded wait
LongScan == max_wait_time + 2

ScanTimeouts == {ShortScan, LongScan}
Callers == {"orch", "scan"}

Max(a, b) == IF a > b THEN a ELSE b
CountDown(t) == Max(t - 1, 0)

\* check_scan_active (process_transaction, lines 1458-1463)
NeverScanActive == FALSE
check_scan_active == scan_request_active

\* scan_thread, lines 250-251: self.scan_request_active = False
FlagLeftSet == TRUE
FlagAfterRead == FALSE

\* lines 1490-1495: -1 < time_since_cooldown < 3, in seconds
CooldownJustExpired(time_since_cooldown) ==
    0 - SkipBefore < time_since_cooldown /\ time_since_cooldown < SkipAfter

\* read_card, line 687: "with self.rfid_lock" is entered when no thread
\* holds the lock
RfidLockIgnored == TRUE
RfidLockFree == rfid_lock = "free"

\* the orchestrator's read_card thread has been started and reader.read()
\* has not returned yet
OrchReadInFlight == r_pc["orch"] \in {"acquire", "reading"}

\* ---- process_transaction, lines 1417-1421, and the start of an iteration
\* of the main loop (line 2178)
OrchBegin ==
    /\ o_pc = "idle"
    /\ o_pc' = "wait"
    /\ o_waited' = 0
    /\ o_tag' = "none"
    /\ entry_active' = FALSE /\ check_active' = FALSE /\ wait_expired' = FALSE
    /\ read_attempted' = FALSE /\ read_overlap' = FALSE
    /\ read_in_window' = FALSE
    /\ verify_in_window' = FALSE /\ verify_overlap' = FALSE
    /\ UNCHANGED <<state, o_timer, o_elapsed, scan_became_active, window>>
    /\ UNCHANGED <<shared, rdvars, hvars, tvars>>
    /\ UNCHANGED <<dvars, rvars, nvars>>

\* ---- process_transaction, lines 1422-1439: one iteration of the wait loop;
\* the sleep of line 1433 is taken inside the with block
OrchWaitCheck ==
    /\ o_pc = "wait"
    /\ scan_request_lock = "free"
    /\ IF scan_request_active
         THEN IF o_waited > max_wait_time
                THEN /\ o_pc' = "cooldown"
                     /\ wait_expired' = TRUE
                     /\ o_waited' = 0          \* not looked at again
                     /\ UNCHANGED <<scan_request_lock, o_timer>>
                ELSE /\ scan_request_lock' = "orchestrator"
                     /\ o_pc' = "wait_sleep"
                     /\ o_timer' = WaitPoll
                     /\ UNCHANGED <<wait_expired, o_waited>>
         ELSE /\ o_pc' = "cooldown"
              /\ o_waited' = 0
              /\ UNCHANGED <<scan_request_lock, o_timer, wait_expired>>
    /\ UNCHANGED <<state, o_elapsed, scan_became_active, o_tag>>
    /\ UNCHANGED <<scan_request_active, cooldown, rfid_timeout>>
    /\ UNCHANGED <<entry_active, check_active, read_attempted, read_overlap,
                   read_in_window, window, verify_in_window, verify_overlap>>
    /\ UNCHANGED <<rdvars, hvars, tvars>>
    /\ UNCHANGED <<dvars, rvars, nvars>>

\* ---- process_transaction, lines 1433-1434: the sleep ends, the with block
\* is left and the loop continues
OrchWaitWake ==
    /\ o_pc = "wait_sleep"
    /\ o_timer = 0
    /\ scan_request_lock' = "free"
    /\ o_pc' = "wait"
    /\ UNCHANGED <<state, o_timer, o_waited, o_elapsed, scan_became_active, o_tag>>
    /\ UNCHANGED <<scan_request_active, cooldown, rfid_timeout>>
    /\ UNCHANGED <<rdvars, hvars, tvars, hist>>
    /\ UNCHANGED <<dvars, rvars, nvars>>

\* ---- process_transaction, lines 1443-1450: the cooldown check; the sleep
\* of line 1450 is taken inside the with block
OrchCooldownCheck ==
    /\ o_pc = "cooldown"
    /\ scan_request_lock = "free"
    /\ IF cooldown > 0
         THEN /\ scan_request_lock' = "orchestrator"
              /\ o_pc' = "cooldown_sleep"
              /\ o_timer' = cooldown
         ELSE /\ o_pc' = "enter"
              /\ UNCHANGED <<scan_request_lock, o_timer>>
    /\ UNCHANGED <<state, o_waited, o_elapsed, scan_became_active, o_tag>>
    /\ UNCHANGED <<scan_request_active, cooldown, rfid_timeout>>
    /\ UNCHANGED <<rdvars, hvars, tvars, hist>>
    /\ UNCHANGED <<dvars, rvars, nvars>>

\* ---- process_transaction, line 1450: the cooldown sleep ends
OrchCooldownWake ==
    /\ o_pc = "cooldown_sleep"
    /\ o_timer = 0
    /\ scan_request_lock' = "free"
    /\ o_pc' = "enter"
    /\ UNCHANGED <<state, o_timer, o_waited, o_elapsed, scan_became_active, o_tag>>
    /\ UNCHANGED <<scan_request_active, cooldown, rfid_timeout>>
    /\ UNCHANGED <<rdvars, hvars, tvars, hist>>
    /\ UNCHANGED <<dvars, rvars, nvars>>

\* ---- process_transaction, lines 1453-1455: State 1, welcome screen
OrchEnterWaiting ==
    /\ o_pc = "enter"
    /\ state' = "WAITING_FOR_RFID"
    /\ o_pc' = "final_check"
    /\ entry_active' = scan_request_active
    /\ UNCHANGED <<o_timer, o_waited, o_elapsed, scan_became_active, o_tag>>
    /\ UNCHANGED <<check_active, wait_expired, read_attempted, read_overlap,
                   read_in_window, window, verify_in_window, verify_overlap>>
    /\ UNCHANGED <<shared, rdvars, hvars, tvars>>
    /\ UNCHANGED <<dvars, rvars, nvars>>

\* ---- process_transaction, lines 1466-1468 (and the finally of line 1677):
\* the final check before reading
OrchFinalCheck ==
    /\ o_pc = "final_check"
    /\ scan_request_lock = "free"
    /\ check_active' = scan_request_active
    /\ IF check_scan_active
         THEN o_pc' = "idle" /\ state' = "IDLE"
         ELSE o_pc' = "read_start" /\ UNCHANGED state
    /\ UNCHANGED <<o_timer, o_waited, o_elapsed, scan_became_active, o_tag>>
    /\ UNCHANGED <<entry_active, wait_expired, read_attempted, read_overlap,
                   read_in_window, window, verify_in_window, verify_overlap>>
    /\ UNCHANGED <<shared, rdvars, hvars, tvars>>
    /\ UNCHANGED <<dvars, rvars, nvars>>

\* ---- read_rfid called at line 1474: lines 652-678 and 749-755, the initial
\* check and the start of the read_card thread
OrchReadStart ==
    /\ o_pc = "read_start"
    /\ scan_request_lock = "free"
    /\ IF check_scan_active
         THEN /\ check_active' = scan_request_active
              /\ o_tag' = "none"
              /\ o_pc' = "post_check"
              /\ UNCHANGED <<o_timer, o_elapsed, scan_became_active, r_pc,
                             r_result, read_attempted, read_overlap,
                             read_in_window>>
         ELSE /\ r_pc' = [r_pc EXCEPT !["orch"] = "acquire"]
                        /\ r_result' = [r_result EXCEPT !["orch"] = "none"]
              /\ scan_became_active' = FALSE
              /\ o_elapsed' = 0
              /\ o_timer' = check_interval
              /\ o_pc' = "monitor"
              /\ read_attempted' = TRUE
              /\ read_overlap' = scan_request_active
              /\ read_in_window' = (window # "none")
              /\ UNCHANGED <<o_tag, check_active>>
    /\ UNCHANGED <<state, o_waited, rfid_lock, orphans>>
    /\ UNCHANGED <<entry_active, wait_expired, window, verify_in_window,
                   verify_overlap>>
    /\ UNCHANGED <<shared, hvars, tvars>>
    /\ UNCHANGED <<dvars, rvars, nvars>>

\* ---- read_rfid, lines 758-774: read_thread.join(check_interval) returns,
\* either because the thread ended or because the interval passed
OrchMonitor ==
    /\ o_pc = "monitor"
    /\ r_pc["orch"] = "done" \/ o_timer = 0
    /\ scan_request_lock = "free"
    /\ IF r_pc["orch"] = "done"
         THEN /\ o_pc' = "read_return"
              /\ o_timer' = 0
              /\ UNCHANGED <<o_elapsed, scan_became_active>>
         ELSE /\ scan_became_active' = (scan_became_active \/ check_scan_active)
              \* without a timeout, elapsed is never looked at
              /\ o_elapsed' = IF rfid_timeout = NoTime THEN o_elapsed
                                ELSE o_elapsed + check_interval
              /\ IF rfid_timeout = NoTime \/ o_elapsed' < rfid_timeout
                   THEN o_pc' = "monitor" /\ o_timer' = check_interval
                   ELSE o_pc' = "read_return" /\ UNCHANGED o_timer
    /\ UNCHANGED <<state, o_waited, o_tag>>
    /\ UNCHANGED <<shared, rdvars, hvars, tvars, hist>>
    /\ UNCHANGED <<dvars, rvars, nvars>>

\* ---- read_rfid, lines 776-790: the value returned to line 1474; a
\* read_card thread that has not ended is left behind
OrchReadReturn ==
    /\ o_pc = "read_return"
    /\ o_tag' = IF scan_became_active THEN "none" ELSE r_result["orch"]
    /\ o_pc' = "post_check"
    /\ o_elapsed' = 0
    /\ r_pc' = [r_pc EXCEPT !["orch"] = "none"]
    /\ r_result' = [r_result EXCEPT !["orch"] = "none"]
    /\ rfid_lock' = IF r_pc["orch"] = "reading" THEN "orphan" ELSE rfid_lock
    /\ orphans' = IF r_pc["orch"] = "acquire" THEN Min(orphans + 1, MaxOrphans)
                                               ELSE orphans
    /\ scan_became_active' = FALSE
    /\ UNCHANGED <<state, o_timer, o_waited>>
    /\ UNCHANGED <<shared, hvars, tvars, hist>>
    /\ UNCHANGED <<dvars, rvars, nvars>>

\* ---- process_transaction, lines 1477-1485 (and the finally of line 1677)
OrchPostCheck ==
    /\ o_pc = "post_check"
    /\ scan_request_lock = "free"
    /\ IF check_scan_active \/ o_tag = "none"
         THEN o_pc' = "idle" /\ state' = "IDLE"
         ELSE o_pc' = "cooldown_skip" /\ UNCHANGED state
    /\ UNCHANGED <<o_timer, o_waited, o_elapsed, scan_became_active, o_tag>>
    /\ UNCHANGED <<shared, rdvars, hvars, tvars, hist>>
    /\ UNCHANGED <<dvars, rvars, nvars>>

\* ---- process_transaction, lines 1490-1513: the cooldown-just-expired
\* skip, then State 2
OrchCooldownSkip ==
    /\ o_pc = "cooldown_skip"
    /\ scan_request_lock = "free"
    /\ IF CooldownJustExpired(0 - cooldown)
         THEN /\ o_pc' = "idle" /\ state' = "IDLE"
              /\ UNCHANGED <<verify_in_window, verify_overlap>>
         ELSE /\ o_pc' = "verifying" /\ state' = "VERIFYING_USER"
              /\ verify_in_window' = (window # "none" /\ read_in_window)
              /\ verify_overlap' = read_overlap
    /\ UNCHANGED <<o_timer, o_waited, o_elapsed, scan_became_active, o_tag>>
    /\ UNCHANGED <<entry_active, check_active, wait_expired, read_attempted,
                   read_overlap, read_in_window, window>>
    /\ UNCHANGED <<shared, rdvars, hvars, tvars>>
    /\ UNCHANGED <<dvars, rvars, nvars>>

\* ---- process_transaction, lines 1515-1677: the rest of the transaction
\* runs to its end and the finally clause resets the state
OrchTransactionEnd ==
    /\ o_pc = "verifying"
    /\ o_pc' = "idle"
    /\ state' = "IDLE"
    /\ UNCHANGED <<o_timer, o_waited, o_elapsed, scan_became_active, o_tag>>
    /\ UNCHANGED <<shared, rdvars, hvars, tvars, hist>>
    /\ UNCHANGED <<dvars, rvars, nvars>>

\* ---- read_card, line 687: the thread of caller c takes rfid_lock and
\* blocks in rfid_reader.read()
ReadAcquire(c) ==
    /\ r_pc[c] = "acquire"
    /\ RfidLockFree
    /\ rfid_lock' = c
    /\ r_pc' = [r_pc EXCEPT ![c] = "reading"]
    /\ UNCHANGED <<r_result, orphans>>
    /\ UNCHANGED <<shared, ovars, hvars, tvars, hist>>
    /\ UNCHANGED <<dvars, rvars, nvars>>

\* ---- read_card, lines 694-747: rfid_reader.read() returns a tag, fails
\* with an AUTH error and is retried, or fails for good (a non-AUTH error, or
\* the last of the AUTH retries of line 681; the retries are not counted
\* here).  Only the orchestrator's call passes check_scan_request (line 1474;
\* line 246 passes None).
ReaderReturns(c) ==
    /\ r_pc[c] = "reading"
    /\ rfid_lock = c
    /\ c = "orch" => scan_request_lock = "free"
    /\ rfid_lock' = "free"
    /\ \E outcome \in {"tag", "retry", "error"} :
         IF c = "orch" /\ check_scan_active
           THEN /\ scan_became_active' = TRUE
                /\ r_result' = [r_result EXCEPT ![c] = "none"]
                /\ r_pc' = [r_pc EXCEPT ![c] = "done"]
           ELSE /\ UNCHANGED scan_became_active
                /\ r_result' = [r_result EXCEPT ![c] =
                                   IF outcome = "tag" THEN "tag" ELSE "none"]
                /\ r_pc' = [r_pc EXCEPT ![c] =
                               IF outcome = "retry" THEN "acquire" ELSE "done"]
    /\ UNCHANGED <<state, o_pc, o_timer, o_waited, o_elapsed, o_tag, orphans>>
    /\ UNCHANGED <<shared, hvars, tvars, hist>>
    /\ UNCHANGED <<dvars, rvars, nvars>>

\* ---- read_card, line 687, in a thread whose read_rfid call has returned
OrphanAcquire ==
    /\ orphans > 0
    /\ RfidLockFree
    /\ rfid_lock' = "orphan"
    /\ orphans' = orphans - 1
    /\ UNCHANGED <<r_pc, r_result>>
    /\ UNCHANGED <<shared, ovars, hvars, tvars, hist>>
    /\ UNCHANGED <<dvars, rvars, nvars>>

\* ---- read_card, lines 694-747, in such a thread: its result goes to a
\* list nobody reads any more
OrphanReturns ==
    /\ rfid_lock = "orphan"
    /\ rfid_lock' = "free"
    /\ UNCHANGED <<r_pc, r_result, orphans>>
    /\ UNCHANGED <<shared, ovars, hvars, tvars, hist>>
    /\ UNCHANGED <<dvars, rvars, nvars>>

\* ---- the server emits rfid:scan_request with a timeout (lines 198-203).
\* One registration is followed at a time: the next request comes when the
\* scan_thread of the last one has ended and its cooldown is over.
HandlerRequestArrive ==
    /\ h_pc = "idle"
    /\ s_pc = "idle"
    /\ cooldown = 0 - SkipAfter
    /\ h_pc' = "request"
    /\ \E t \in ScanTimeouts : h_timeout' = t
    /\ UNCHANGED <<shared, ovars, rdvars, tvars, hist>>
    /\ UNCHANGED <<dvars, rvars, nvars>>

\* ---- on_rfid_scan_request, lines 209-210 and 324: the flag is set under
\* the lock and scan_thread is started
HandlerSetActive ==
    /\ h_pc = "request"
    /\ scan_request_lock = "free"
    /\ scan_request_active' = TRUE
    /\ h_pc' = "idle"
    /\ s_pc' = "start"
    /\ s_timeout' = h_timeout
    /\ h_timeout' = ShortScan
    /\ read_overlap' = (read_overlap \/ OrchReadInFlight)
    /\ UNCHANGED <<cooldown, scan_request_lock, rfid_timeout,
                   s_timer, s_elapsed, s_tag>>
    /\ UNCHANGED <<entry_active, check_active, wait_expired, read_attempted,
                   read_in_window, window, verify_in_window, verify_overlap>>
    /\ UNCHANGED <<ovars, rdvars>>
    /\ UNCHANGED <<dvars, rvars, nvars>>

\* ---- the server emits rfid:scan_cancel for a request it has made; a cancel
\* that comes when the flag is already false would change nothing
HandlerCancelArrive ==
    /\ h_pc = "idle"
    /\ s_pc # "idle"
    /\ scan_request_active
    /\ h_pc' = "cancel"
    /\ UNCHANGED h_timeout
    /\ UNCHANGED <<shared, ovars, rdvars, tvars, hist>>
    /\ UNCHANGED <<dvars, rvars, nvars>>

\* ---- on_rfid_scan_cancel, lines 332-333: the flag is cleared; scan_thread
\* is not told
HandlerClearActive ==
    /\ h_pc = "cancel"
    /\ scan_request_lock = "free"
    /\ scan_request_active' = FALSE
    /\ h_pc' = "idle"
    /\ UNCHANGED <<cooldown, scan_request_lock, rfid_timeout, h_timeout>>
    /\ UNCHANGED <<ovars, rdvars, tvars, hist>>
    /\ UNCHANGED <<dvars, rvars, nvars>>

\* ---- scan_thread, lines 215-232: the reader is there; sleep 0.5 s
ScanStart ==
    /\ s_pc = "start"
    /\ s_pc' = "presleep"
    /\ s_timer' = ScanPreSleep
    /\ UNCHANGED <<s_elapsed, s_timeout, s_tag>>
    /\ UNCHANGED <<shared, ovars, rdvars, hvars, hist>>
    /\ UNCHANGED <<dvars, rvars, nvars>>

\* ---- scan_thread, lines 235-240: LCD message, then a sleep of 0.3 s,
\* which ends before the next tick or with it
ScanLcd ==
    /\ s_pc = "presleep"
    /\ s_timer = 0
    /\ s_pc' = "lcd_sleep"
    /\ \E d \in {0, 1} : s_timer' = d
    /\ UNCHANGED <<s_elapsed, s_timeout, s_tag>>
    /\ UNCHANGED <<shared, ovars, rdvars, hvars, hist>>
    /\ UNCHANGED <<dvars, rvars, nvars>>

\* ---- scan_thread, line 246: read_rfid without check_scan_request; lines
\* 652-678 and 749-755 start the read_card thread
ScanReadStart ==
    /\ s_pc = "lcd_sleep"
    /\ s_timer = 0
    /\ r_pc' = [r_pc EXCEPT !["scan"] = "acquire"]
    /\ r_result' = [r_result EXCEPT !["scan"] = "none"]
    /\ s_elapsed' = 0
    /\ s_timer' = check_interval
    /\ s_pc' = "monitor"
    /\ UNCHANGED <<s_timeout, s_tag, rfid_lock, orphans>>
    /\ UNCHANGED <<shared, ovars, hvars, hist>>
    /\ UNCHANGED <<dvars, rvars, nvars>>

\* ---- read_rfid, lines 758-774, in the scan's call
ScanMonitor ==
    /\ s_pc = "monitor"
    /\ r_pc["scan"] = "done" \/ s_timer = 0
    /\ IF r_pc["scan"] = "done"
         THEN /\ s_pc' = "read_return"
              /\ s_timer' = 0
              /\ UNCHANGED s_elapsed
         ELSE /\ s_elapsed' = s_elapsed + check_interval
              /\ IF s_elapsed' < s_timeout
                   THEN s_pc' = "monitor" /\ s_timer' = check_interval
                   ELSE s_pc' = "read_return" /\ UNCHANGED s_timer
    /\ UNCHANGED <<s_timeout, s_tag>>
    /\ UNCHANGED <<shared, ovars, rdvars, hvars, hist>>
    /\ UNCHANGED <<dvars, rvars, nvars>>

\* ---- read_rfid, lines 782-790, in the scan's call
ScanReadReturn ==
    /\ s_pc = "read_return"
    /\ s_tag' = r_result["scan"]
    /\ s_pc' = "clear"
    /\ s_elapsed' = 0
    /\ r_pc' = [r_pc EXCEPT !["scan"] = "none"]
    /\ r_result' = [r_result EXCEPT !["scan"] = "none"]
    /\ rfid_lock' = IF r_pc["scan"] = "reading" THEN "orphan" ELSE rfid_lock
    /\ orphans' = IF r_pc["scan"] = "acquire" THEN Min(orphans + 1, MaxOrphans)
                                               ELSE orphans
    /\ UNCHANGED <<s_timer, s_timeout>>
    /\ UNCHANGED <<shared, ovars, hvars, hist>>
    /\ UNCHANGED <<dvars, rvars, nvars>>

\* ---- scan_thread, lines 250-262 and 286-292: the flag is cleared, the
\* result is shown for 3 s (success) or 2 s (failure)
ScanClearActive ==
    /\ s_pc = "clear"
    /\ scan_request_lock = "free"
    /\ scan_request_active' = FlagAfterRead
    /\ IF s_tag = "tag"
         THEN s_pc' = "display" /\ s_timer' = SuccessDisplay /\ window' = "display"
         ELSE s_pc' = "fail_display" /\ s_timer' = FailDisplay /\ UNCHANGED window
    /\ UNCHANGED <<cooldown, scan_request_lock, rfid_timeout>>
    /\ UNCHANGED <<s_elapsed, s_timeout, s_tag>>
    /\ UNCHANGED <<entry_active, check_active, wait_expired, read_attempted,
                   read_overlap, read_in_window, verify_in_window,
                   verify_overlap>>
    /\ UNCHANGED <<ovars, rdvars, hvars>>
    /\ UNCHANGED <<dvars, rvars, nvars>>

\* ---- scan_thread, lines 269-284 and 306: the cooldown is set, the result
\* emitted
ScanSetCooldown ==
    /\ s_pc = "display"
    /\ s_timer = 0
    /\ scan_request_lock = "free"
    /\ cooldown' = cooldown_duration
    /\ window' = "cooldown"
    /\ s_pc' = "welcome"
    /\ s_timer' = WelcomeDelay
    /\ UNCHANGED <<scan_request_active, scan_request_lock, rfid_timeout>>
    /\ UNCHANGED <<s_elapsed, s_timeout, s_tag>>
    /\ UNCHANGED <<entry_active, check_active, wait_expired, read_attempted,
                   read_overlap, read_in_window, verify_in_window,
                   verify_overlap>>
    /\ UNCHANGED <<ovars, rdvars, hvars>>
    /\ UNCHANGED <<dvars, rvars, nvars>>

\* ---- scan_thread, lines 296-306: the failure is emitted
ScanFailEmit ==
    /\ s_pc = "fail_display"
    /\ s_timer = 0
    /\ s_pc' = "welcome"
    /\ s_timer' = WelcomeDelay
    /\ UNCHANGED <<s_elapsed, s_timeout, s_tag>>
    /\ UNCHANGED <<shared, ovars, rdvars, hvars, hist>>
    /\ UNCHANGED <<dvars, rvars, nvars>>

\* ---- scan_thread, lines 307-310: welcome screen, the thread ends
ScanEnd ==
    /\ s_pc = "welcome"
    /\ s_timer = 0
    /\ s_pc' = "idle"
    /\ s_tag' = "none"
    /\ s_timeout' = ShortScan
    /\ UNCHANGED <<s_timer, s_elapsed>>
    /\ UNCHANGED <<shared, ovars, rdvars, hvars, hist>>
    /\ UNCHANGED <<dvars, rvars, nvars>>

\* ---- the steps the program takes by itself, as soon as it can
ProgramStep ==
    \/ OrchBegin \/ OrchWaitCheck \/ OrchWaitWake \/ OrchCooldownCheck
    \/ OrchCooldownWake \/ OrchEnterWaiting \/ OrchFinalCheck \/ OrchReadStart
    \/ OrchMonitor \/ OrchReadReturn \/ OrchPostCheck \/ OrchCooldownSkip
    \/ \E c \in Callers : ReadAcquire(c)
    \/ OrphanAcquire
    \/ HandlerSetActive \/ HandlerClearActive
    \/ ScanStart \/ ScanLcd \/ ScanReadStart \/ ScanMonitor \/ ScanReadReturn
    \/ ScanClearActive \/ ScanSetCooldown \/ ScanFailEmit \/ ScanEnd

\* ---- half a second passes while no thread can take a step
Tick ==
    /\ ~ ENABLED ProgramStep
    /\ o_timer' = CountDown(o_timer)
    /\ s_timer' = CountDown(s_timer)
    /\ cooldown' = Max(cooldown - 1, 0 - SkipAfter)
    /\ o_waited' = IF o_pc \in {"wait", "wait_sleep"}
                     THEN Min(o_waited + 1, max_wait_time + 1) ELSE o_waited
    /\ window' = IF window = "cooldown" /\ cooldown' <= 0 THEN "none" ELSE window
    /\ UNCHANGED <<scan_request_active, scan_request_lock, rfid_timeout>>
    /\ UNCHANGED <<state, o_pc, o_elapsed, scan_became_active, o_tag>>
    /\ UNCHANGED <<s_pc, s_elapsed, s_timeout, s_tag>>
    /\ UNCHANGED <<entry_active, check_active, wait_expired, read_attempted,
                   read_overlap, read_in_window, verify_in_window,
                   verify_overlap>>
    /\ UNCHANGED <<rdvars, hvars>>
    /\ UNCHANGED <<dvars, rvars, nvars>>

\* ---- the steps of the orchestrator, of the socket handlers and of the
\* read_card threads at their lock
OrchStep ==
    \/ OrchBegin \/ OrchWaitCheck \/ OrchWaitWake \/ OrchCooldownCheck
    \/ OrchCooldownWake \/ OrchEnterWaiting \/ OrchFinalCheck \/ OrchReadStart
    \/ OrchMonitor \/ OrchReadReturn \/ OrchPostCheck \/ OrchCooldownSkip
    \/ OrchTransactionEnd
HandlerStep == HandlerSetActive \/ HandlerClearActive
ReadStep == (\E c \in Callers : ReadAcquire(c)) \/ OrphanAcquire

\* ---- the steps of scan_thread
ScanThreadStep ==
    \/ ScanStart \/ ScanLcd \/ ScanReadStart \/ ScanMonitor \/ ScanReadReturn
    \/ ScanClearActive \/ ScanSetCooldown \/ ScanFailEmit \/ ScanEnd

ScanNext ==
    \/ ProgramStep
    \/ OrchTransactionEnd
    \/ \E c \in Callers : ReaderReturns(c)
    \/ OrphanReturns
    \/ HandlerRequestArrive \/ HandlerCancelArrive
    \/ Tick

(***************************************************************************)
(*          Claims about the exclusive scan and the orchestrator           *)
(***************************************************************************)
\* C3 as stated: if scan_request_active is true when the orchestrator sets
\* WAITING_FOR_RFID (line 1453), no read thread is started in that iteration.
C3_NoReadAfterActiveAtEntry == ~(entry_active /\ read_attempted)

\* C3: if scan_request_active is true at a check the orchestrator makes
\* before reading (the final check of line 1466 or read_rfid's initial check
\* of line 668), also after the bounded wait has run out, then no read thread
\* is started in that iteration and the iteration ends without a tag.
C3_NoReadAfterActiveAtCheck ==
    check_active =>
        /\ ~read_attempted
        /\ o_pc = "idle" \/ (o_pc = "post_check" /\ o_tag = "none")

\* the bounded wait ran out, the flag was still set at the final check, and
\* the iteration ended without a read
C3_Witness ==
    /\ wait_expired /\ entry_active /\ check_active
    /\ ~read_attempted
    /\ o_pc = "idle" /\ state = "IDLE"

\* C4: the orchestrator never enters VERIFYING_USER with a tag from a read
\* during which scan_request_active was set.
C4_NoVerifyingAfterOverlap == ~(o_pc = "verifying" /\ verify_overlap)

\* C5: between the moment a successful scan clears scan_request_active and
\* the end of the cooldown that scan sets, no tag the orchestrator reads is
\* passed on to VERIFYING_USER.
C5_NoVerifyingInCooldownWindow == ~(o_pc = "verifying" /\ verify_in_window)

\* threads inside rfid_reader.read() (line 694): the read_card thread of a
\* call of read_rfid still going on, or one left behind by a call that
\* timed out
ThreadsInRead ==
    Cardinality({c \in Callers : r_pc[c] = "reading"})
        + (IF rfid_lock = "orphan" THEN 1 ELSE 0)

\* C21: at most one thread is inside the physical reader's read call at any
\* time, across orchestrator reads, read threads left running after a read
\* timed out, and exclusive-scan reads.
C21_OneThreadInReaderRead ==
    /\ ThreadsInRead <= 1
    /\ \A c \in Callers : r_pc[c] = "reading" => rfid_lock = c

\* a thread left behind by a timed-out read is inside the reader while the
\* read_card thread of the exclusive scan waits for the lock
C21_Witness ==
    /\ rfid_lock = "orphan"
    /\ r_pc["scan"] = "acquire"
    /\ scan_request_active


\* C33: while the read_rfid call of the exclusive scan is going on, the
\* reader is not held by the read_card thread of an orchestrator call, so a
\* card presented then is read by the scan's thread.
C33_ScanReadHasTheReader ==
    (s_pc = "monitor" /\ r_pc["scan"] \in {"acquire", "reading"})
        => rfid_lock # "orch"


\* C36: the orchestrator holds scan_request_lock in none of its sleeps, so
\* the handlers and scan_thread never find the lock taken by a sleeping
\* orchestrator.
C36_NoSleepHoldingScanRequestLock ==
    o_pc \in {"wait_sleep", "cooldown_sleep"} => scan_request_lock # "orchestrator"


\* C39: whenever scan_request_active is true it becomes false again: the
\* scan_thread of the request clears it when its read has returned (card,
\* timeout) and the lock is to be had, if a scan_cancel has not done so
\* before.
C39_ScanRequestEnds == scan_request_active ~> ~scan_request_active

\* the read of a scan ran into its timeout while the orchestrator was
\* waiting for the scan to finish, and the flag has been cleared
C39_Witness ==
    /\ s_pc = "fail_display" /\ s_tag = "none"
    /\ ~scan_request_active
    /\ o_pc \in {"wait", "wait_sleep"} /\ o_waited > 0

(***************************************************************************)
(*        PART 4 - THE GATEWAY WITH THE OFFLINE COLLABORATOR (sync.py)     *)
(*                                                                         *)
(* SyncManager.smart_verify_user and smart_submit_transaction, called with *)
(* the arguments their signatures ask for, over an api client whose        *)
(* answer is one of: an exception, None (or an empty dict), a tuple        *)
(* (success, data) as main.py's APIClient returns, or a dict as the mock   *)
(* clients of sync.py and tests/test_offline_mode.py return.  One tag is   *)
(* followed: users_cache is its row of the users_cache table.              *)
(***************************************************************************)

\* sync.py line 518: int(weight * 10), for a whole weight
PointsPerGram == 10

\* ---- bounds
MaxWeight == 2
MaxQueue == 2
MaxBalance == 30

\* current_points the backend may report for the user
BackendPoints == {0, 5}
\* the key is missing from a dict
NoKey == 0 - 1

NoUser == [present |-> FALSE, current_points |-> 0, is_active |-> FALSE]
CachedUser(p, a) == [present |-> TRUE, current_points |-> p, is_active |-> a]

\* outcome of check_network_status: the status kept from a recent check, or
\* the result of a new probe of the backend's health endpoint
Probes == {"recent", "up", "down"}
check_network_status(probe, kept) == IF probe = "recent" THEN kept ELSE probe = "up"

\* what self.api.verify_rfid(rfid_tag) may yield
VerifyResponses ==
    {[kind |-> k, valid |-> FALSE, current_points |-> 0, is_active |-> TRUE] :
        k \in {"raises", "None"}}
    \cup {[kind |-> "tuple", valid |-> v, current_points |-> 0, is_active |-> TRUE] :
        v \in BOOLEAN}
    \cup {[kind |-> "dict", valid |-> v, current_points |-> p, is_active |-> a] :
        v \in BOOLEAN, p \in BackendPoints, a \in BOOLEAN}

\* what self.api.submit_transaction(rfid_tag, weight, metal_detected) may yield
SubmitResponses ==
    {[kind |-> k, accepted |-> FALSE, points_earned |-> NoKey] :
        k \in {"raises", "None"}}
    \cup {[kind |-> "tuple", accepted |-> v, points_earned |-> NoKey] :
        v \in BOOLEAN}
    \cup {[kind |-> "dict", accepted |-> FALSE, points_earned |-> NoKey]}
    \cup {[kind |-> "dict", accepted |-> TRUE, points_earned |-> p] :
        p \in {NoKey, PointsPerGram}}

\* the backend call failed in transport: it raised, or it came back empty
TransportFailure(r) ==
    \/ r.kind \in {"raises", "None"}
    \/ r.kind = "tuple" /\ ~r.valid

SubmitTransportFailure(r) ==
    \/ r.kind \in {"raises", "None"}
    \/ r.kind = "tuple" /\ ~r.accepted

\* database.py lines 54-88
cache_user(user_data) == CachedUser(user_data.current_points, user_data.is_active)

\* database.py lines 131-160: UPDATE ... WHERE rfid_tag = ?
update_user_points(row, points_to_add) ==
    IF row.present
      THEN [row EXCEPT !.current_points = @ + points_to_add]
      ELSE row

\* result.get(...) on a tuple raises AttributeError, which the except clause
\* of lines 484 / 549 catches like any exception of the call itself
CallRaises(r) == r.kind \in {"raises", "tuple"}

\* sync.py lines 454-502
smart_verify_user(online, r, row) ==
    IF online /\ ~CallRaises(r)
      THEN IF r.kind = "dict" /\ r.valid
             THEN [valid |-> TRUE, current_points |-> r.current_points,
                   source |-> "backend", row |-> cache_user(r)]
             ELSE [valid |-> FALSE, current_points |-> 0,
                   source |-> "backend", row |-> row]
      ELSE IF row.present /\ row.is_active
             THEN [valid |-> TRUE, current_points |-> row.current_points,
                   source |-> "cache", row |-> row]
             ELSE [valid |-> FALSE, current_points |-> 0,
                   source |-> "cache", row |-> row]

RejectedRowCharged(row, points_earned) == update_user_points(row, points_earned)
\* sync.py lines 544-547: a rejection returns without touching the cache
RejectedRow(row, points_earned) == row

\* sync.py lines 504-571; points_earned of the result is what
\* txn_data.get("points_earned", 0) reads from it
smart_submit_transaction(online, r, row, queue, weight, dbok) ==
    LET points_earned == weight * PointsPerGram
        transaction_data == [weight |-> weight, points_earned |-> points_earned]
    IN  IF online /\ ~CallRaises(r)
          THEN IF r.kind = "dict" /\ r.accepted
                 THEN [accepted |-> TRUE, offline |-> FALSE,
                       points_earned |-> IF r.points_earned = NoKey THEN 0
                                         ELSE r.points_earned,
                       reason |-> "", source |-> "backend",
                       row |-> update_user_points(row, points_earned),
                       queue |-> queue]
                 ELSE [accepted |-> FALSE, offline |-> FALSE, points_earned |-> 0,
                       reason |-> IF r.kind = "dict" THEN "Unknown" ELSE "No response",
                       source |-> "backend",
                       row |-> RejectedRow(row, points_earned), queue |-> queue]
          ELSE IF dbok
                 THEN [accepted |-> TRUE, offline |-> TRUE,
                       points_earned |-> points_earned,
                       reason |-> "", source |-> "queue",
                       row |-> update_user_points(row, points_earned),
                       queue |-> Append(queue, transaction_data)]
                 ELSE [accepted |-> FALSE, offline |-> FALSE, points_earned |-> 0,
                       reason |-> "Database error", source |-> "queue",
                       row |-> row, queue |-> queue]

NoCall == [op |-> "none", online |-> FALSE, kind |-> "", failure |-> FALSE,
           ok |-> FALSE, source |-> "", before |-> NoUser, queued |-> 0,
           dbok |-> TRUE]

\* ---- a call of smart_verify_user
GatewayVerify ==
    /\ \E probe \in Probes, r \in VerifyResponses :
         LET online == check_network_status(probe, is_online)
             res    == smart_verify_user(online, r, users_cache)
         IN  /\ is_online' = online
             /\ users_cache' = res.row
             /\ g_last' = [op |-> "verify", online |-> online, kind |-> r.kind,
                           failure |-> online /\ TransportFailure(r),
                           ok |-> res.valid, source |-> res.source,
                           before |-> users_cache,
                           queued |-> Len(pending_transactions), dbok |-> TRUE]
    /\ UNCHANGED pending_transactions
    /\ UNCHANGED <<dvars, svars, rvars, xvars, avars, pvars>>

\* ---- a call of smart_submit_transaction
GatewaySubmit ==
    /\ Len(pending_transactions) < MaxQueue
    /\ \E probe \in Probes, r \in SubmitResponses, weight \in 1..MaxWeight,
          dbok \in BOOLEAN :
         LET online == check_network_status(probe, is_online)
             res    == smart_submit_transaction(online, r, users_cache,
                                                pending_transactions, weight, dbok)
         IN  /\ users_cache.current_points + weight * PointsPerGram <= MaxBalance
             /\ is_online' = online
             /\ users_cache' = res.row
             /\ pending_transactions' = res.queue
             /\ g_last' = [op |-> "submit", online |-> online, kind |-> r.kind,
                           failure |-> online /\ SubmitTransportFailure(r),
                           ok |-> res.accepted, source |-> res.source,
                           before |-> users_cache,
                           queued |-> Len(pending_transactions), dbok |-> dbok]
    /\ UNCHANGED <<dvars, svars, rvars, xvars, avars, pvars>>

GatewayNext == GatewayVerify \/ GatewaySubmit

(***************************************************************************)
(*                       Claims about the gateway                          *)
(***************************************************************************)
\* C16: a rejected submission leaves the user's point balance unchanged: the
\* cached row of the user after the call equals the row before it (and
\* nothing is added to the queue).
C16_RejectionLeavesBalance ==
    (g_last.op = "submit" /\ ~g_last.ok) =>
        /\ users_cache = g_last.before
        /\ Len(pending_transactions) = g_last.queued

\* the backend declined the submission of a user who is in the cache
C16_Witness ==
    /\ g_last.op = "submit" /\ ~g_last.ok
    /\ g_last.online /\ g_last.kind = "dict" /\ g_last.source = "backend"
    /\ users_cache.present /\ users_cache.current_points > 0

SubmitArgsPassed == 2
SubmitArgsRequired == 3
\* the call raises TypeError before the method body runs
SubmitCallRaises == SubmitArgsPassed # SubmitArgsRequired

Http == {"200", "500", "unreachable"}
\* pointsAwarded / totalPoints the backend may answer
AwardedValues == {NoKey, 1}
TotalValues == {NoKey, 1, 6}

VerifyReplies ==
    [http : Http, valid : BOOLEAN, currentPoints : BackendPoints \cup {NoKey}]
SubmitReplies ==
    [http : Http, success : BOOLEAN, accepted : BOOLEAN,
     pointsAwarded : AwardedValues, totalPoints : TotalValues]

\* dict.get(key, default)
Get(v, default) == IF v = NoKey THEN default ELSE v

\* main.py lines 1077-1103: (success, response_data)
make_request(reply) == reply.http = "200"

\* main.py lines 1105-1122: (True, data) or (False, None)
verify_rfid(reply) == make_request(reply) /\ reply.valid

\* main.py lines 1124-1146: (True, data) or (False, None)
submit_transaction(reply) == make_request(reply) /\ reply.success

\* what APIClient.verify_rfid hands to the SyncManager: always a tuple
APIClientVerify == {r \in VerifyResponses : r.kind = "tuple"}

\* how the backend answered a submit of the online-only mode
ReportOf(reply) ==
    IF ~submit_transaction(reply) THEN "failure"
    ELSE IF reply.accepted THEN "accepted" ELSE "rejected"

\* the values wait_for_multiple_papers returns (part 1)
DetectorReturns ==
    {ReturnTuple(TRUE, c) : c \in 1..(MAX_PAPERS_PER_TRANSACTION - 1)}
    \cup {ReturnTuple(FALSE, 0), ReturnNone}

DetectionNeverFailed(ret) == FALSE
\* main.py line 1556: not success or paper_count == 0
DetectionFailed(ret) == ~ret.success \/ ret.count = 0

NoFinallyState == "ERROR"
\* main.py line 1677
FinallyState == "IDLE"

\* rows the local database may hold for the tag when the program starts
StoredRows == {NoUser} \cup {CachedUser(p, a) : p \in BackendPoints, a \in BOOLEAN}

\* ---- main.py lines 2037-2169: the database is opened and the
\* TransactionProcessor is built, with or without a sync manager
TxnConstruct ==
    /\ x_pc = "init"
    /\ \E s \in BOOLEAN, row \in StoredRows :
         /\ sync_enabled' = s
         /\ users_cache' = IF s THEN row ELSE NoUser
    /\ x_pc' = "loop"
    /\ UNCHANGED <<state, lcd, current_points, points_awarded, total_points,
                   x_exc, x_prop, seen, verified, det, submit_invoked, report,
                   x_before>>
    /\ UNCHANGED <<pending_transactions, is_online, g_last>>
    /\ UNCHANGED <<dvars, rvars, sframe, avars, pvars>>

\* ---- main.py line 2178 and lines 1417-1510: the main loop calls
\* process_transaction, which waits for a tag
TxnBegin ==
    /\ x_pc = "loop"
    /\ \E outcome \in {"tag", "none", "raise"} :
         \* line 1477: no tag is passed on while the flag is set
         /\ outcome = "tag" => ~check_scan_active
         /\ state' = IF outcome = "tag" THEN "VERIFYING_USER" ELSE "WAITING_FOR_RFID"
         /\ seen' = IF outcome = "tag" THEN {"WAITING_FOR_RFID", "VERIFYING_USER"}
                    ELSE {"WAITING_FOR_RFID"}
         /\ x_pc' = CASE outcome = "tag" -> "verifying"
                      [] outcome = "none" -> "finally"
                      [] OTHER -> "raised"
         /\ x_exc' = IF outcome = "raise" THEN "component" ELSE "none"
    /\ lcd' = "welcome"
    /\ current_points' = 0 /\ points_awarded' = NoKey /\ total_points' = NoKey
    /\ x_prop' = FALSE
    /\ verified' = "none" /\ det' = NotReturned /\ submit_invoked' = FALSE
    /\ report' = "none"
    /\ x_before' = [row |-> users_cache, queued |-> Len(pending_transactions)]
    /\ UNCHANGED sync_enabled
    /\ UNCHANGED gvars
    /\ UNCHANGED <<dvars, rvars, sframe, avars, pvars>>

\* ---- main.py lines 1515-1551: verification, then WAITING_FOR_PAPER and
\* COUNTING_PAPERS
TxnVerify ==
    /\ x_pc = "verifying"
    /\ IF sync_enabled
         THEN \E probe \in Probes, r \in APIClientVerify :
                LET online == check_network_status(probe, is_online)
                    res    == smart_verify_user(online, r, users_cache)
                IN  /\ is_online' = online
                    /\ users_cache' = res.row
                    /\ verified' = IF res.valid THEN "valid" ELSE "invalid"
                    /\ current_points' = res.current_points
                    /\ IF res.valid
                         THEN /\ state' = "COUNTING_PAPERS"
                              /\ seen' = seen \cup {"WAITING_FOR_PAPER", "COUNTING_PAPERS"}
                              /\ lcd' = "user_verified"
                              /\ x_pc' = "counting"
                         ELSE \* lines 1518-1524
                              /\ lcd' = "not_registered"
                              /\ x_pc' = "finally"
                              /\ UNCHANGED <<state, seen>>
                    /\ UNCHANGED x_exc
         ELSE \E reply \in VerifyReplies :
                /\ verified' = IF verify_rfid(reply) THEN "valid" ELSE "invalid"
                /\ IF verify_rfid(reply)
                     THEN /\ current_points' = Get(reply.currentPoints, 0)
                          /\ state' = "COUNTING_PAPERS"
                          /\ seen' = seen \cup {"WAITING_FOR_PAPER", "COUNTING_PAPERS"}
                          /\ lcd' = "user_verified"
                          /\ x_pc' = "counting"
                          /\ UNCHANGED x_exc
                     ELSE \* lines 1529-1536: success is False and user_data is
                          \* None, so line 1531 is skipped, lcd_error() is called
                          \* and user_data.get at line 1536 raises AttributeError
                          /\ lcd' = "error"
                          /\ x_exc' = "AttributeError"
                          /\ x_pc' = "raised"
                          /\ UNCHANGED <<state, seen, current_points>>
                /\ UNCHANGED <<users_cache, is_online>>
    /\ UNCHANGED <<sync_enabled, points_awarded, total_points, x_prop, det,
                   submit_invoked, report, x_before>>
    /\ UNCHANGED <<pending_transactions, g_last>>
    /\ UNCHANGED <<dvars, rvars, sframe, avars, pvars>>

\* ---- main.py lines 1554-1570: the detector returns
TxnCount ==
    /\ x_pc = "counting"
    /\ \E ret \in DetectorReturns :
         /\ det' = ret
         /\ IF ret = ReturnNone
              THEN \* unpacking None at line 1554 raises TypeError
                   /\ x_exc' = "TypeError" /\ x_pc' = "raised"
                   /\ UNCHANGED <<state, seen>>
              ELSE IF DetectionFailed(ret)
              THEN /\ x_pc' = "finally"
                   /\ UNCHANGED <<state, seen, x_exc>>
              ELSE /\ state' = "SUBMITTING"
                   /\ seen' = seen \cup {"SUBMITTING"}
                   /\ x_pc' = "submitting"
                   /\ UNCHANGED x_exc
    /\ UNCHANGED <<sync_enabled, lcd, current_points, points_awarded,
                   total_points, x_prop, verified, submit_invoked, report,
                   x_before>>
    /\ UNCHANGED gvars
    /\ UNCHANGED <<dvars, rvars, sframe, avars, pvars>>

\* ---- main.py lines 1573-1666: the submit and the state it leads to
TxnSubmit ==
    /\ x_pc = "submitting"
    /\ submit_invoked' = TRUE
    /\ IF sync_enabled
         THEN IF SubmitCallRaises
                THEN /\ x_exc' = "TypeError" /\ x_pc' = "raised"
                     /\ UNCHANGED <<state, seen, lcd, points_awarded,
                                    total_points, report>>
                     /\ UNCHANGED <<users_cache, pending_transactions, is_online>>
                ELSE \E probe \in Probes, dbok \in BOOLEAN,
                        r \in {q \in SubmitResponses : q.kind = "raises"} :
                       LET online == check_network_status(probe, is_online)
                           res    == smart_submit_transaction(online, r, users_cache,
                                         pending_transactions, det.count, dbok)
                           shown  == IF res.row.present THEN res.row.current_points
                                     ELSE current_points + res.points_earned
                       IN  /\ is_online' = online
                           /\ users_cache' = res.row
                           /\ pending_transactions' = res.queue
                           /\ report' = IF res.accepted THEN "accepted" ELSE "rejected"
                           /\ state' = IF res.accepted THEN "SUCCESS" ELSE "REJECTED"
                           /\ seen' = seen \cup {state'}
                           /\ lcd' = IF ~res.accepted THEN "rejected"
                                     ELSE IF res.offline THEN "offline" ELSE "success"
                           /\ points_awarded' = IF res.accepted THEN res.points_earned
                                                ELSE points_awarded
                           /\ total_points' = IF res.accepted THEN shown ELSE total_points
                           /\ x_pc' = "dwell"
                           /\ UNCHANGED x_exc
         ELSE \E reply \in SubmitReplies :
                LET rep     == ReportOf(reply)
                    awarded == Get(reply.pointsAwarded, 0)
                IN  /\ report' = rep
                    /\ state' = CASE rep = "failure" -> "ERROR"
                                  [] rep = "accepted" -> "SUCCESS"
                                  [] OTHER -> "REJECTED"
                    /\ seen' = seen \cup {state'}
                    /\ lcd' = CASE rep = "failure" -> "error"
                                [] rep = "accepted" -> "success"
                                [] OTHER -> "rejected"
                    /\ points_awarded' = IF rep = "accepted" THEN awarded
                                         ELSE points_awarded
                    /\ total_points' =
                           IF rep = "accepted"
                             THEN Get(reply.totalPoints, current_points + awarded)
                             ELSE total_points
                    /\ x_pc' = "dwell"
                    /\ UNCHANGED x_exc
                    /\ UNCHANGED <<users_cache, pending_transactions, is_online>>
    /\ UNCHANGED <<sync_enabled, current_points, x_prop, verified, det, x_before>>
    /\ UNCHANGED g_last
    /\ UNCHANGED <<dvars, rvars, sframe, avars, pvars>>

\* ---- the feedback of a terminal state was shown: return
TxnReturn ==
    /\ x_pc = "dwell"
    /\ x_pc' = "finally"
    /\ UNCHANGED <<state, sync_enabled, lcd, current_points, points_awarded,
                   total_points, x_exc, x_prop, seen, verified, det,
                   submit_invoked, report, x_before>>
    /\ UNCHANGED gvars
    /\ UNCHANGED <<dvars, rvars, sframe, avars, pvars>>

\* ---- a component (display, LED, event stream, sensor, backend client)
\* raises an exception at some statement inside the try block
TxnRaise ==
    /\ x_pc \in {"verifying", "counting", "submitting", "dwell"}
    /\ x_exc' = "component"
    /\ x_pc' = "raised"
    /\ UNCHANGED <<state, sync_enabled, lcd, current_points, points_awarded,
                   total_points, x_prop, seen, verified, det, submit_invoked,
                   report, x_before>>
    /\ UNCHANGED gvars
    /\ UNCHANGED <<dvars, rvars, sframe, avars, pvars>>

\* ---- main.py lines 1668-1674: the except clause; led_blink may raise in
\* its turn, and that exception leaves process_transaction
TxnExcept ==
    /\ x_pc = "raised"
    /\ state' = "ERROR"
    /\ seen' = seen \cup {"ERROR"}
    /\ lcd' = "error"
    /\ \E again \in BOOLEAN : x_prop' = again
    /\ x_pc' = "finally"
    /\ UNCHANGED <<sync_enabled, current_points, points_awarded, total_points,
                   x_exc, verified, det, submit_invoked, report, x_before>>
    /\ UNCHANGED gvars
    /\ UNCHANGED <<dvars, rvars, sframe, avars, pvars>>

\* ---- main.py lines 1676-1677, then back in the main loop (2178-2190)
TxnFinally ==
    /\ x_pc = "finally"
    /\ state' = FinallyState
    /\ seen' = seen \cup {FinallyState}
    /\ x_pc' = IF x_prop THEN "mainexcept" ELSE "loop"
    /\ UNCHANGED <<sync_enabled, lcd, current_points, points_awarded,
                   total_points, x_exc, x_prop, verified, det, submit_invoked,
                   report, x_before>>
    /\ UNCHANGED gvars
    /\ UNCHANGED <<dvars, rvars, sframe, avars, pvars>>

\* ---- main.py lines 2187-2190: the main loop's own except clause
TxnMainExcept ==
    /\ x_pc = "mainexcept"
    /\ lcd' = "error"
    /\ x_prop' = FALSE
    /\ x_pc' = "loop"
    /\ UNCHANGED <<state, sync_enabled, current_points, points_awarded,
                   total_points, x_exc, seen, verified, det, submit_invoked,
                   report, x_before>>
    /\ UNCHANGED gvars
    /\ UNCHANGED <<dvars, rvars, sframe, avars, pvars>>

\* ---- realtime_client.py lines 209-210: the socket thread sets the flag
\* of a registration scan, whatever process_transaction is doing
TxnScanRequest ==
    /\ x_pc # "init"
    /\ ~scan_request_active
    /\ scan_request_active' = TRUE
    /\ UNCHANGED <<cooldown, scan_request_lock, rfid_timeout>>
    /\ UNCHANGED <<ovars, rdvars, hvars, tvars, hist>>
    /\ UNCHANGED <<dvars, rvars, nvars>>

\* ---- realtime_client.py lines 249-250 (the scan is over) and 331-332 (the
\* request is cancelled): the flag is cleared
TxnScanOver ==
    /\ scan_request_active
    /\ scan_request_active' = FALSE
    /\ UNCHANGED <<cooldown, scan_request_lock, rfid_timeout>>
    /\ UNCHANGED <<ovars, rdvars, hvars, tvars, hist>>
    /\ UNCHANGED <<dvars, rvars, nvars>>

TxnNext ==
    \/ TxnConstruct \/ TxnBegin \/ TxnVerify \/ TxnCount \/ TxnSubmit
    \/ TxnReturn \/ TxnRaise \/ TxnExcept \/ TxnFinally \/ TxnMainExcept
    \/ TxnScanRequest \/ TxnScanOver

(***************************************************************************)
(*                     Claims about the transaction                        *)
(***************************************************************************)
\* the call of process_transaction is over and the main loop has control
TxnEnded == x_pc = "loop" /\ "IDLE" \in seen

\* C12: when the identity verification returns invalid, with or without the
\* offline collaborator, the state goes from VERIFYING_USER to REJECTED, the
\* "not registered" message is displayed, and the orchestrator returns to
\* IDLE without having entered WAITING_FOR_PAPER.
C12_InvalidIdentityIsRejected ==
    (TxnEnded /\ verified = "invalid" /\ x_exc # "component") =>
        /\ "REJECTED" \in seen
        /\ lcd = "not_registered"
        /\ "WAITING_FOR_PAPER" \notin seen
        /\ state = "IDLE"

\* C13: the gateway's submit operation is invoked only in a transaction whose
\* identity verification succeeded and whose detection returned success with
\* a count of at least 1; when the detection yields zero units or times out,
\* SUBMITTING is not entered, nothing is sent or queued, and the call ends in
\* IDLE.
C13_SubmitOnlyAfterVerifiedCount ==
    /\ (submit_invoked \/ "SUBMITTING" \in seen) =>
          /\ verified = "valid"
          /\ det.kind = "tuple" /\ det.success /\ det.count >= 1
    /\ (det # NotReturned /\ DetectionFailed(det)) =>
          /\ "SUBMITTING" \notin seen
          /\ ~submit_invoked
          /\ Len(pending_transactions) = x_before.queued
          /\ TxnEnded => state = "IDLE"

\* the submit was invoked after a valid verification and a counted unit
C13_Witness ==
    /\ submit_invoked /\ verified = "valid" /\ det = ReturnTuple(TRUE, 1)
    /\ report # "none"

\* C14: from SUBMITTING the orchestrator reaches SUCCESS exactly when the
\* gateway reports acceptance, REJECTED exactly when it reports a business
\* rejection, and ERROR exactly when the submit fails by a transport/backend
\* failure (in calls in which no other component raised an exception).
C14_SubmitOutcomeMatchesReport ==
    (submit_invoked /\ x_exc # "component" /\ x_pc # "raised") =>
        /\ ("SUCCESS" \in seen) <=> (report = "accepted")
        /\ ("REJECTED" \in seen) <=> (report = "rejected")
        /\ ("ERROR" \in seen) <=> (report = "failure")

\* C15: an exception raised in any state of a transaction sets the state to
\* ERROR and then to IDLE; every call of process_transaction ends with state
\* IDLE, and the main loop then starts the next transaction.
C15_ExceptionForcesErrorThenIdle ==
    /\ [][(x_pc = "raised" /\ UNCHANGED scan_request_active) =>
             (state' = "ERROR" /\ x_pc' = "finally")]_vars
    /\ [][(x_pc = "finally" /\ UNCHANGED scan_request_active) =>
             (state' = "IDLE" /\ x_pc' \in {"loop", "mainexcept"})]_vars
    /\ [][(x_pc = "mainexcept" /\ UNCHANGED scan_request_active) =>
             (x_pc' = "loop" /\ state' = "IDLE")]_vars
    /\ []((x_pc = "loop" /\ x_exc # "none") => {"ERROR", "IDLE"} \subseteq seen)
    /\ [](x_pc = "loop" => (state = "IDLE" /\ ENABLED TxnBegin))

\* an exception was raised after SUCCESS had been set, and the main loop is
\* about to call again
C15_Witness ==
    /\ x_pc = "loop" /\ x_exc = "component" /\ lcd = "error"
    /\ {"SUCCESS", "ERROR", "IDLE"} \subseteq seen /\ state = "IDLE"

\* C17: for every accepted submission the total shown to the operator equals
\* the point balance obtained at verification plus the points awarded that
\* are shown for this submission.
C17_TotalIsBalancePlusAwarded ==
    (report = "accepted" /\ "SUCCESS" \in seen) =>
        total_points = current_points + points_awarded

\* C22: if scan_request_active is set while the orchestrator is in
\* COUNTING_PAPERS, the call of wait_for_multiple_papers sees the flag and
\* ends, and process_transaction returns to IDLE without entering SUBMITTING.
C22_CountingEndsOnScanRequest ==
    [][(x_pc = "counting" /\ state = "COUNTING_PAPERS" /\ scan_request_active)
          => state' # "SUBMITTING"]_vars

(***************************************************************************)
(*       PART 6 - THE ACTUATOR SEQUENCE (HardwareManager, main.py)         *)
(*                                                                         *)
(* Angles are in degrees and multiples of 9, so that the duty cycle        *)
(* 2.5 + (angle / 180.0) * 10.0 is a whole number of half percents:        *)
(* duty cycles are held in units of 0.5 %.                                 *)
(***************************************************************************)

\* main.py line 355: the range angles are clamped to
MinAngle == 0
MaxAngle == 180

\* ---- bound on the cycles argument
MaxCycles == 2

Servos == {1, 2}
NoAngle == 0 - 999

\* values of config.SERVO_*: the usual ones, a set whose start and end
\* angles lie outside 0..180, and a step that does not divide the range
ServoConfigs ==
    {[COLLECTION_START |-> 180, COLLECTION_END |-> 0,
      REWARD_START |-> 0, REWARD_END |-> 180,
      COLLECTION_IDLE |-> 90, REWARD_IDLE |-> 90, ANGLE_STEP |-> 90],
     [COLLECTION_START |-> 198, COLLECTION_END |-> 0 - 18,
      REWARD_START |-> 0 - 18, REWARD_END |-> 198,
      COLLECTION_IDLE |-> 90, REWARD_IDLE |-> 81, ANGLE_STEP |-> 108],
     [COLLECTION_START |-> 180, COLLECTION_END |-> 0,
      REWARD_START |-> 0, REWARD_END |-> 180,
      COLLECTION_IDLE |-> 90, REWARD_IDLE |-> 90, ANGLE_STEP |-> 72]}

Abs(x) == IF x < 0 THEN 0 - x ELSE x

NoClamp(angle) == angle
\* line 355: max(0.0, min(180.0, angle))
Clamp(angle) == Max(MinAngle, Min(MaxAngle, angle))

\* line 359 (and 321): 2.5 + (angle / 180.0) * 10.0, in units of 0.5 %
DutyCycle(angle) == 5 + (angle \div 9)

\* line 405: int(angle_range / SERVO_DISPENSE_ANGLE_STEP)
num_steps ==
    Abs(servo_cfg.COLLECTION_END - servo_cfg.COLLECTION_START)
        \div servo_cfg.ANGLE_STEP

\* both servos stepped the way servo 1 is
StepAngleSameWay(servo, step) ==
    Max(servo_cfg.COLLECTION_START - step * servo_cfg.ANGLE_STEP,
        servo_cfg.COLLECTION_END)

\* lines 412-413 and 416-417
StepAngle(servo, step) ==
    IF servo = 1
      THEN Max(servo_cfg.COLLECTION_START - step * servo_cfg.ANGLE_STEP,
               servo_cfg.COLLECTION_END)
      ELSE Min(servo_cfg.REWARD_START + step * servo_cfg.ANGLE_STEP,
               servo_cfg.REWARD_END)

StartAngle(servo) ==
    IF servo = 1 THEN servo_cfg.COLLECTION_START ELSE servo_cfg.REWARD_START
EndAngle(servo) ==
    IF servo = 1 THEN servo_cfg.COLLECTION_END ELSE servo_cfg.REWARD_END
IdleAngle(servo) ==
    IF servo = 1 THEN servo_cfg.COLLECTION_IDLE ELSE servo_cfg.REWARD_IDLE

\* lines 336-366: _set_servo_angle(pwm, angle) on a servo; ChangeDutyCycle
\* either applies the duty cycle or raises
SetServoAngle(servo, angle, raises) ==
    IF raises
      THEN UNCHANGED <<duty, requested>>
      ELSE /\ duty' = [duty EXCEPT ![servo] = DutyCycle(Clamp(angle))]
           /\ requested' = [requested EXCEPT ![servo] = angle]

\* ---- lines 310-334: _init_servos; both PWMs are started at the duty cycle
\* of SERVO_COLLECTION_IDLE, or the initialisation fails
ServoInit ==
    /\ a_pc = "init"
    /\ \E cfg \in ServoConfigs, ok \in BOOLEAN :
         /\ servo_cfg' = cfg
         /\ pwm_ok' = ok
         /\ duty' = IF ok THEN [s \in Servos |-> DutyCycle(cfg.COLLECTION_IDLE)]
                    ELSE duty
    /\ a_pc' = "ready"
    /\ UNCHANGED <<a_cycles, a_cycle, a_step, requested, a_fault,
                   cleanup_fault, a_ret>>
    /\ UNCHANGED <<dvars, svars, rvars, gvars, xvars, pvars>>

\* ---- lines 382-386: dispense_synchronized(cycles) is called
DispenseCall ==
    /\ a_pc = "ready"
    /\ \E n \in 0..MaxCycles :
         IF pwm_ok
           THEN /\ a_cycles' = n /\ a_cycle' = 0 /\ a_step' = 0
                /\ a_pc' = "start1"
                /\ a_ret' = "none"
           ELSE /\ a_ret' = "False"
                /\ UNCHANGED <<a_pc, a_cycles, a_cycle, a_step>>
    /\ a_fault' = FALSE /\ cleanup_fault' = FALSE
    /\ UNCHANGED <<servo_cfg, pwm_ok, duty, requested>>
    /\ UNCHANGED <<dvars, svars, rvars, gvars, xvars, pvars>>

\* ---- lines 395-397: both servos to their start angles
DispenseStart ==
    /\ a_pc \in {"start1", "start2"}
    /\ \E raises \in BOOLEAN :
         LET servo == IF a_pc = "start1" THEN 1 ELSE 2
         IN  /\ SetServoAngle(servo, StartAngle(servo), raises)
             /\ a_fault' = raises
             /\ a_pc' = IF raises THEN "clean1"
                        ELSE IF servo = 1 THEN "start2"
                        ELSE IF a_cycles > 0 THEN "step1" ELSE "idle1"
    /\ UNCHANGED <<servo_cfg, pwm_ok, a_cycles, a_cycle, a_step, cleanup_fault,
                   a_ret>>
    /\ UNCHANGED <<dvars, svars, rvars, gvars, xvars, pvars>>

\* ---- lines 409-429: one command of one step of the rotation
DispenseStep ==
    /\ a_pc \in {"step1", "step2"}
    /\ \E raises \in BOOLEAN :
         LET servo == IF a_pc = "step1" THEN 1 ELSE 2
             last  == a_step >= num_steps
         IN  /\ SetServoAngle(servo, StepAngle(servo, a_step), raises)
             /\ a_fault' = raises
             /\ IF raises
                  THEN a_pc' = "clean1" /\ UNCHANGED <<a_cycle, a_step>>
                  ELSE IF servo = 1
                  THEN a_pc' = "step2" /\ UNCHANGED <<a_cycle, a_step>>
                  ELSE IF ~last
                  THEN a_pc' = "step1" /\ a_step' = a_step + 1 /\ UNCHANGED a_cycle
                  ELSE IF a_cycle < a_cycles - 1
                  THEN a_pc' = "return1" /\ UNCHANGED <<a_cycle, a_step>>
                  ELSE a_pc' = "idle1" /\ a_cycle' = a_cycle + 1 /\ a_step' = 0
    /\ UNCHANGED <<servo_cfg, pwm_ok, a_cycles, cleanup_fault, a_ret>>
    /\ UNCHANGED <<dvars, svars, rvars, gvars, xvars, pvars>>

\* ---- lines 434-438: back to the start angles before the next cycle
DispenseReturnToStart ==
    /\ a_pc \in {"return1", "return2"}
    /\ \E raises \in BOOLEAN :
         LET servo == IF a_pc = "return1" THEN 1 ELSE 2
         IN  /\ SetServoAngle(servo, StartAngle(servo), raises)
             /\ a_fault' = raises
             /\ IF raises
                  THEN a_pc' = "clean1" /\ UNCHANGED <<a_cycle, a_step>>
                  ELSE IF servo = 1
                  THEN a_pc' = "return2" /\ UNCHANGED <<a_cycle, a_step>>
                  ELSE a_pc' = "step1" /\ a_cycle' = a_cycle + 1 /\ a_step' = 0
    /\ UNCHANGED <<servo_cfg, pwm_ok, a_cycles, cleanup_fault, a_ret>>
    /\ UNCHANGED <<dvars, svars, rvars, gvars, xvars, pvars>>

\* ---- lines 441-447: both servos to their idle angles, return True
DispenseIdle ==
    /\ a_pc \in {"idle1", "idle2"}
    /\ \E raises \in BOOLEAN :
         LET servo == IF a_pc = "idle1" THEN 1 ELSE 2
         IN  /\ SetServoAngle(servo, IdleAngle(servo), raises)
             /\ a_fault' = raises
             /\ a_pc' = IF raises THEN "clean1"
                        ELSE IF servo = 1 THEN "idle2" ELSE "ready"
             /\ a_ret' = IF ~raises /\ servo = 2 THEN "True" ELSE a_ret
    /\ UNCHANGED <<servo_cfg, pwm_ok, a_cycles, a_cycle, a_step, cleanup_fault>>
    /\ UNCHANGED <<dvars, svars, rvars, gvars, xvars, pvars>>

\* ---- lines 449-459: the except clause: both servos to idle inside one
\* try whose bare except passes, then return False
DispenseCleanup ==
    /\ a_pc \in {"clean1", "clean2"}
    /\ \E raises \in BOOLEAN :
         LET servo == IF a_pc = "clean1" THEN 1 ELSE 2
         IN  /\ SetServoAngle(servo, IdleAngle(servo), raises)
             /\ cleanup_fault' = raises
             /\ a_pc' = IF ~raises /\ servo = 1 THEN "clean2" ELSE "ready"
             /\ a_ret' = IF ~raises /\ servo = 1 THEN a_ret ELSE "False"
    /\ UNCHANGED <<servo_cfg, pwm_ok, a_cycles, a_cycle, a_step, a_fault>>
    /\ UNCHANGED <<dvars, svars, rvars, gvars, xvars, pvars>>

ActuatorNext ==
    \/ ServoInit \/ DispenseCall \/ DispenseStart \/ DispenseStep
    \/ DispenseReturnToStart \/ DispenseIdle \/ DispenseCleanup

(***************************************************************************)
(*                  Claims about the actuator sequence                     *)
(***************************************************************************)
\* a dispense sequence has run and returned
DispenseReturned == a_pc = "ready" /\ pwm_ok /\ a_ret # "none"

\* C18: after the dispense sequence returns, for any number of cycles, the
\* last angle commanded to each of the two actuators is its idle angle, both
\* when the sequence succeeds and when an actuator command raised a fault.
C18_BothIdleAfterDispense ==
    DispenseReturned =>
        \A s \in Servos :
            requested[s] # NoAngle =>
                /\ requested[s] = IdleAngle(s)
                /\ duty[s] = DutyCycle(IdleAngle(s))

\* C19: every angle applied to an actuator is within [0,180]: a requested
\* angle outside that range is applied as the nearest bound, one inside it
\* as itself.
C19_AppliedAngleClamped ==
    \A s \in Servos :
        /\ pwm_ok => (duty[s] >= DutyCycle(MinAngle) /\ duty[s] <= DutyCycle(MaxAngle))
        /\ requested[s] # NoAngle =>
              duty[s] = IF requested[s] < MinAngle THEN DutyCycle(MinAngle)
                        ELSE IF requested[s] > MaxAngle THEN DutyCycle(MaxAngle)
                        ELSE DutyCycle(requested[s])

\* an angle above 180 was requested for servo 1 and one below 0 for servo 2
C19_Witness ==
    /\ requested[1] # NoAngle /\ requested[1] > MaxAngle
    /\ requested[2] # NoAngle /\ requested[2] < MinAngle
    /\ duty[1] = DutyCycle(MaxAngle) /\ duty[2] = DutyCycle(MinAngle)

\* the stepping phase of a cycle is over: the next command is the return to
\* the start angles, or the move to idle after the last cycle
SteppingEnded == a_pc \in {"return1", "idle1"} /\ a_cycles > 0

\* C27: for every positive step size and every pair of start and end
\* angles, the stepping phase of each cycle ends with both actuators
\* commanded exactly to their end angles, also when the step size does not
\* divide the angular range.
C27_SteppingEndsAtEndAngles ==
    SteppingEnded => \A s \in Servos : requested[s] = EndAngle(s)

Threads == {"orch", "read_card", "handler", "scan", "poller", "immediate"}

\* the lock a shared attribute is meant to be accessed under
GuardedBy(attr) ==
    IF attr = "processing_redemptions" THEN "processing_lock"
                                       ELSE "scan_request_lock"

\* "with lock:" around the operations of body
WithLock(lock, body) ==
    <<<<"acquire", lock>>>> \o body \o <<<<"release", lock>>>>

\* process_transaction: lines 1423-1438, 1444-1450, 1461-1462 (called at
\* 1466, at 668 and 766 inside read_rfid, and at 1477), read_rfid's wait for
\* its read thread (758-774), 1491-1493, then the verify and submit requests
OrchProgram ==
    WithLock("scan_request_lock",
             <<<<"read", "scan_request_active">>, <<"sleep", "0.5">>>>)
    \o WithLock("scan_request_lock",
             <<<<"read", "scan_cooldown_until">>, <<"sleep", "remaining">>>>)
    \o WithLock("scan_request_lock", <<<<"read", "scan_request_active">>>>)
    \o WithLock("scan_request_lock", <<<<"read", "scan_request_active">>>>)
    \o <<<<"io", "read_rfid">>>>
    \o WithLock("scan_request_lock", <<<<"read", "scan_request_active">>>>)
    \o WithLock("scan_request_lock", <<<<"read", "scan_cooldown_until">>>>)
    \o <<<<"io", "http verify">>, <<"io", "http submit">>>>

\* read_card: line 694 (under rfid_lock only), then check_scan_request()
\* of line 698
ReadCardProgram ==
    <<<<"io", "rfid_reader.read">>>>
    \o WithLock("scan_request_lock", <<<<"read", "scan_request_active">>>>)

\* on_rfid_scan_request lines 209-210, on_rfid_scan_cancel lines 332-333
HandlerProgram ==
    WithLock("scan_request_lock", <<<<"write", "scan_request_active">>>>)
    \o WithLock("scan_request_lock", <<<<"write", "scan_request_active">>>>)

\* scan_thread: lines 246, 250-251, 270-271, 274
ScanThreadProgram ==
    <<<<"io", "read_rfid">>>>
    \o WithLock("scan_request_lock", <<<<"write", "scan_request_active">>>>)
    \o WithLock("scan_request_lock", <<<<"write", "scan_cooldown_until">>>>)
    \o <<<<"io", "emit">>>>

\* the dispense sequence inside the with block of line 1856
PollerDispensesUnderLock ==
    <<<<"io", "http pending">>>>
    \o WithLock("processing_lock",
             <<<<"read", "processing_redemptions">>,
               <<"write", "processing_redemptions">>,
               <<"io", "dispense">>>>)
    \o <<<<"io", "http dispensed">>>>
    \o WithLock("processing_lock", <<<<"write", "processing_redemptions">>>>)

\* RedemptionHandlerThread.run: lines 1841, 1856-1862, 1883, 1888, 1912-1914
PollerProgram ==
    <<<<"io", "http pending">>>>
    \o WithLock("processing_lock",
             <<<<"read", "processing_redemptions">>,
               <<"write", "processing_redemptions">>>>)
    \o <<<<"io", "dispense">>, <<"io", "http dispensed">>>>
    \o WithLock("processing_lock", <<<<"write", "processing_redemptions">>>>)

\* process_redemption_immediate: lines 1945-1951, 1972, 1976, 2004-2006
ImmediateProgram ==
    WithLock("processing_lock",
             <<<<"read", "processing_redemptions">>,
               <<"write", "processing_redemptions">>>>)
    \o <<<<"io", "dispense">>, <<"io", "http dispensed">>>>
    \o WithLock("processing_lock", <<<<"write", "processing_redemptions">>>>)

Program(t) ==
    CASE t = "orch" -> OrchProgram
      [] t = "read_card" -> ReadCardProgram
      [] t = "handler" -> HandlerProgram
      [] t = "scan" -> ScanThreadProgram
      [] t = "poller" -> PollerProgram
      [] OTHER -> ImmediateProgram

\* the operation thread t is about to do
NextOp(t) == Program(t)[l_pc[t]]

\* ---- thread t does its next operation; a lock is acquired when no thread
\* holds it
LockStep(t) ==
    /\ NextOp(t)[1] = "acquire" =>
           \A u \in Threads : NextOp(t)[2] \notin l_held[u]
    /\ l_held' = [l_held EXCEPT ![t] =
                     CASE NextOp(t)[1] = "acquire" -> @ \cup {NextOp(t)[2]}
                       [] NextOp(t)[1] = "release" -> @ \ {NextOp(t)[2]}
                       [] OTHER -> @]
    /\ l_pc' = [l_pc EXCEPT ![t] = IF @ = Len(Program(t)) THEN 1 ELSE @ + 1]
    /\ UNCHANGED <<dvars, svars, rvars, gvars, xvars, avars, evars, qvars,
                   kvars>>

LockNext == \E t \in Threads : LockStep(t)

(***************************************************************************)
(*                       Claims about the locks                            *)
(***************************************************************************)
\* C23: every read and write of scan_request_active, scan_cooldown_until and
\* processing_redemptions is done by a thread holding the lock that guards
\* it, and no thread does blocking hardware I/O (identity read, dispense
\* sequence, HTTP request) while it holds scan_request_lock or
\* processing_lock.
C23_AccessUnderLockNoIoUnderLock ==
    \A t \in Threads :
        /\ NextOp(t)[1] \in {"read", "write"} =>
               GuardedBy(NextOp(t)[2]) \in l_held[t]
        /\ NextOp(t)[1] = "io" => l_held[t] = {}

\* the orchestrator reads the flag under its lock while the poller writes
\* the set under the other lock and the scan thread is in its identity read
C23_Witness ==
    /\ NextOp("orch") = <<"read", "scan_request_active">>
    /\ NextOp("poller") = <<"write", "processing_redemptions">>
    /\ NextOp("scan") = <<"io", "read_rfid">>
    /\ l_held["orch"] = {"scan_request_lock"}
    /\ l_held["poller"] = {"processing_lock"}

(***************************************************************************)
(*        PART 8 - THE REPEAT COUNT OF A REDEMPTION (main.py)              *)
(*                                                                         *)
(* extract_paper_count_from_reward_type on every descriptor of up to       *)
(* MaxDescriptorLen symbols, and the call of the dispense sequence that    *)
(* follows it in RedemptionHandlerThread.run and                           *)
(* process_redemption_immediate.                                           *)
(***************************************************************************)
RECURSIVE Texts(_)
Texts(n) ==
    IF n = 0 THEN {<<>>}
    ELSE Texts(n - 1) \cup
         {Append(t, c) : t \in {u \in Texts(n - 1) : Len(u) = n - 1}, c \in Symbols}

\* redemption.get("rewardType", "") of line 1852, data of the event
Descriptors ==
    {[type |-> "str", text |-> t] : t \in Texts(MaxDescriptorLen)}
    \cup {[type |-> "num", text |-> <<>>]}

\* ---- lines 1865 / 1958: paper_count = extract_paper_count_from_reward_type
\* (reward_type); a raise ends the handling of the item
ExtractCall ==
    /\ e_paper_count = 0 /\ e_cycles = 0
    /\ \E rt \in Descriptors :
         /\ e_reward_type' = rt
         /\ e_paper_count' = IF ExtractRaises(rt) THEN 0
                             ELSE extract_paper_count_from_reward_type(rt)
    /\ e_cycles' = 0
    /\ UNCHANGED <<dvars, svars, rvars, gvars, xvars, avars, lvars, qvars,
                   kvars>>

\* ---- lines 1883 / 1972: dispense_synchronized(cycles=paper_count)
ExtractDispense ==
    /\ e_paper_count # 0
    /\ e_cycles = 0
    /\ e_cycles' = e_paper_count
    /\ UNCHANGED <<e_reward_type, e_paper_count>>
    /\ UNCHANGED <<dvars, svars, rvars, gvars, xvars, avars, lvars, qvars,
                   kvars>>

\* ---- lines 1910-1914 / 2002-2006: the item is done with
ExtractFinish ==
    /\ e_cycles # 0
    /\ e_reward_type' = NoItem.rewardType
    /\ e_paper_count' = 0
    /\ e_cycles' = 0
    /\ UNCHANGED <<dvars, svars, rvars, gvars, xvars, avars, lvars, qvars,
                   kvars>>

ExtractNext == ExtractCall \/ ExtractDispense \/ ExtractFinish

(***************************************************************************)
(*                   Claims about the repeat count                         *)
(***************************************************************************)
\* C24: the repeat count derived from a reward descriptor is 1 or 5; it is 5
\* only when the descriptor contains a bulk pattern and no small pattern; it
\* is 1 when the descriptor is empty, matches no pattern, or matches both the
\* small and the bulk pattern; and the dispense sequence is invoked with
\* exactly that number of cycles.
C24_RepeatCountFromDescriptor ==
    (e_cycles # 0 /\ e_reward_type.type = "str") =>
        LET reward_lower == Lower(e_reward_type.text)
        IN  /\ e_paper_count \in {1, 5}
            /\ e_cycles = e_paper_count
            /\ e_paper_count = 5 =>
                   (BulkPattern(reward_lower) /\ ~SmallPattern(reward_lower))
            /\ (\/ e_reward_type.text = <<>>
                \/ ~BulkPattern(reward_lower) /\ ~SmallPattern(reward_lower)
                \/ BulkPattern(reward_lower) /\ SmallPattern(reward_lower))
                   => e_paper_count = 1

(***************************************************************************)
(*   PART 9 - THE QUEUE OF OFFLINE TRANSACTIONS (database.py, sync.py)     *)
(*                                                                         *)
(* The pending_transactions table of DatabaseManager, in rowid order, with *)
(* the columns the queue operations use.  time.time() is the wall clock:   *)
(* any value of the range.  Rows with the same created_at are taken to     *)
(* come out of ORDER BY in rowid order.  Database errors are left out.     *)
(***************************************************************************)

\* config.py line 265
MAX_SYNC_RETRIES == 3

\* ---- bounds: rows queued, values of int(time.time())
MaxRows == 3
MaxClock == 1

\* ORDER BY created_at ASC
InsertByCreatedAt(row, sorted) ==
    LET k == Cardinality({i \in 1..Len(sorted) :
                             sorted[i].created_at <= row.created_at})
    IN  SubSeq(sorted, 1, k) \o <<row>> \o SubSeq(sorted, k + 1, Len(sorted))

RECURSIVE OrderByCreatedAt(_)
OrderByCreatedAt(rows) ==
    IF rows = <<>> THEN <<>>
    ELSE InsertByCreatedAt(rows[Len(rows)],
                           OrderByCreatedAt(SubSeq(rows, 1, Len(rows) - 1)))

\* get_pending_transactions (lines 212-247); a limit of None or 0 is no limit
get_pending_transactions(table, limit) ==
    LET rows == OrderByCreatedAt(
                    SelectSeq(table, LAMBDA r : r.sync_status = "pending"))
    IN  IF limit # 0 THEN SubSeq(rows, 1, Min(limit, Len(rows))) ELSE rows

\* get_pending_transactions_count (lines 323-333)
get_pending_transactions_count(table) ==
    Len(SelectSeq(table, LAMBDA r : r.sync_status = "pending"))

PendingIds(table) ==
    {get_pending_transactions(table, 0)[i].id :
        i \in 1..Len(get_pending_transactions(table, 0))}

\* the UPDATE of mark_transaction_synced without its WHERE clause
SyncedEveryRow(table, transaction_id) ==
    [i \in 1..Len(table) |-> [table[i] EXCEPT !.sync_status = "synced"]]

\* mark_transaction_synced, lines 260-266: UPDATE ... WHERE id = ?
SyncedRow(table, transaction_id) ==
    [i \in 1..Len(table) |->
        IF table[i].id = transaction_id
          THEN [table[i] EXCEPT !.sync_status = "synced"] ELSE table[i]]

\* mark_transaction_failed without the check of lines 306-315
FailedRowNoLimit(table, transaction_id) ==
    [i \in 1..Len(table) |->
        IF table[i].id = transaction_id
          THEN [table[i] EXCEPT !.retry_count = @ + 1] ELSE table[i]]

\* mark_transaction_failed, lines 294-315
FailedRow(table, transaction_id) ==
    [i \in 1..Len(table) |->
        IF table[i].id = transaction_id
          THEN [table[i] EXCEPT
                  !.retry_count = @ + 1,
                  !.sync_status = IF table[i].retry_count + 1 >= MAX_SYNC_RETRIES
                                    THEN "failed" ELSE @]
          ELSE table[i]]

\* ---- queue_transaction, lines 186-206: the new row gets the next rowid
QueueTransaction ==
    /\ Len(q_table) < MaxRows
    /\ \E now \in 0..MaxClock :
         q_table' = Append(q_table, [id |-> Len(q_table) + 1,
                                     sync_status |-> "pending",
                                     retry_count |-> 0,
                                     created_at |-> now])
    /\ UNCHANGED <<q_marked, q_run>>
    /\ UNCHANGED <<dvars, svars, rvars, gvars, xvars, avars, lvars, evars,
                   kvars>>

\* ---- sync.py lines 182-193: a sync run begins (full_sync passes no limit);
\* with nothing pending it returns at once.  Sync runs follow one another:
\* one at startup (main.py 2120), then those of the auto-sync thread (1788).
SyncStart ==
    /\ q_run = <<>>
    /\ \E limit \in {0, 1} :
         LET pending == get_pending_transactions(q_table, limit)
         IN  /\ pending # <<>>
             /\ q_run' = [i \in 1..Len(pending) |-> pending[i].id]
    /\ UNCHANGED <<q_table, q_marked>>
    /\ UNCHANGED <<dvars, svars, rvars, gvars, xvars, avars, lvars, evars,
                   kvars>>

\* ---- sync.py lines 191-214: the next transaction of the run was submitted
\* and accepted by the backend
MarkTransactionSynced ==
    /\ q_run # <<>>
    /\ q_table' = SyncedRow(q_table, Head(q_run))
    /\ q_marked' = q_marked \cup {Head(q_run)}
    /\ q_run' = Tail(q_run)
    /\ UNCHANGED <<dvars, svars, rvars, gvars, xvars, avars, lvars, evars,
                   kvars>>

\* ---- sync.py lines 191-230: the next transaction of the run was submitted
\* and not accepted, or its submit raised
MarkTransactionFailed ==
    /\ q_run # <<>>
    /\ q_table' = FailedRow(q_table, Head(q_run))
    /\ q_run' = Tail(q_run)
    /\ UNCHANGED q_marked
    /\ UNCHANGED <<dvars, svars, rvars, gvars, xvars, avars, lvars, evars,
                   kvars>>

QueueNext ==
    QueueTransaction \/ SyncStart \/ MarkTransactionSynced \/ MarkTransactionFailed

(***************************************************************************)
(*                 Claims about the offline queue                          *)
(***************************************************************************)
\* what get_pending_transactions() returns is in ascending order of
\* created_at, and marking a transaction synced takes exactly that one out of
\* the pending set
OldestFirstAndExactRemoval ==
    /\ [](LET pending == get_pending_transactions(q_table, 0)
          IN  /\ \A i, j \in 1..Len(pending) :
                     i < j => pending[i].created_at <= pending[j].created_at
              /\ Len(pending) = get_pending_transactions_count(q_table))
    /\ [][q_marked' # q_marked =>
             /\ Cardinality(q_marked' \ q_marked) = 1
             /\ (q_marked' \ q_marked) \subseteq PendingIds(q_table)
             /\ PendingIds(q_table') = PendingIds(q_table) \ q_marked']_vars

\* C25 as stated: every queued transaction is returned by
\* get_pending_transactions, oldest first, until it is marked synced; marking
\* one transaction synced removes exactly that transaction from the pending
\* set and leaves every other queued transaction pending.
C25_PendingUntilSynced ==
    /\ [](\A i \in 1..Len(q_table) :
             q_table[i].id \notin q_marked => q_table[i].id \in PendingIds(q_table))
    /\ OldestFirstAndExactRemoval

\* C25: every queued transaction is returned by get_pending_transactions,
\* oldest first, until it is marked synced or mark_transaction_failed has been
\* called on it MAX_SYNC_RETRIES times; marking one transaction synced
\* removes exactly that transaction from the pending set and leaves every
\* other one as it was.
C25_PendingUntilSyncedOrFailedOut ==
    /\ [](\A i \in 1..Len(q_table) :
             q_table[i].id \in PendingIds(q_table) <=>
                 /\ q_table[i].id \notin q_marked
                 /\ q_table[i].retry_count < MAX_SYNC_RETRIES)
    /\ OldestFirstAndExactRemoval

\* three transactions were queued, the later one first by created_at; one
\* has failed out, and marking another synced has left the third pending
C25_Witness ==
    /\ Len(q_table) = 3
    /\ q_table[1].created_at > q_table[2].created_at
    /\ \E i \in 1..3 : q_table[i].retry_count = MAX_SYNC_RETRIES
    /\ Cardinality(q_marked) = 1
    /\ Cardinality(PendingIds(q_table)) = 1


\* the row of a transaction id
Row(table, transaction_id) ==
    CHOOSE r \in {table[i] : i \in 1..Len(table)} : r.id = transaction_id

\* C32: a sync run submits only transactions that are pending at that moment
\* (never one marked synced, never one marked failed); a failed attempt adds
\* one to the retry count and leaves the transaction pending while the count
\* is below MAX_SYNC_RETRIES, and sets it to 'failed' when the count reaches
\* MAX_SYNC_RETRIES; a failed or synced transaction is never returned as
\* pending and its row never changes again.
C32_RetryThenFailedForGood ==
    /\ [][(q_run # <<>> /\ q_run' = Tail(q_run)) =>
            LET id  == Head(q_run)
                old == Row(q_table, id)
                new == Row(q_table', id)
            IN  /\ old.sync_status = "pending"
                /\ old.retry_count < MAX_SYNC_RETRIES
                /\ \/ new = [old EXCEPT !.sync_status = "synced"]
                   \/ /\ new.retry_count = old.retry_count + 1
                      /\ new.sync_status =
                            IF new.retry_count = MAX_SYNC_RETRIES
                              THEN "failed" ELSE "pending"
                      /\ new.created_at = old.created_at]_vars
    /\ [][\A i \in 1..Len(q_table) :
             q_table[i].sync_status # "pending" => q_table'[i] = q_table[i]]_vars
    /\ [](\A i \in 1..Len(q_table) :
             /\ q_table[i].sync_status = "failed" <=>
                   q_table[i].retry_count >= MAX_SYNC_RETRIES
             /\ q_table[i].sync_status # "pending" =>
                   /\ q_table[i].id \notin PendingIds(q_table)
                   /\ \A k \in 1..Len(q_run) : q_run[k] # q_table[i].id)

\* one transaction failed out at its third attempt, another was synced after
\* two failed attempts, and a sync run has the third one left to submit
C32_Witness ==
    /\ Len(q_table) = 3
    /\ \E i, j \in 1..3 :
          /\ q_table[i].sync_status = "failed"
          /\ q_table[i].retry_count = MAX_SYNC_RETRIES
          /\ q_table[j].sync_status = "synced" /\ q_table[j].retry_count = 2
    /\ Len(q_run) = 1 /\ Row(q_table, q_run[1]).retry_count = 1

(***************************************************************************)
(*   PART 10 - SCAN REQUESTS THAT OVERLAP (realtime_client.py)             *)
(*                                                                         *)
(* on_rfid_scan_request starts one scan_thread per event and keeps no      *)
(* record of the requests; the threads share the one boolean               *)
(* scan_request_active.  A thread's read_rfid returns with a tag or, after *)
(* the request's timeout, without one.  Time is left out: the steps of     *)
(* different threads interleave freely.                                    *)
(***************************************************************************)

\* ---- bound: scan requests the server sends
MaxRequests == 2

Requests == 1..MaxRequests

\* in these positions a scan_thread is between its start and the return of
\* its read_rfid call (lines 214-247)
BeforeReadReturns == {"start", "read"}

\* on_rfid_scan_cancel, lines 331-334: the requestId is logged, nothing is
\* done to the scan_thread of the request
AfterCancel(pc) == pc

frame10 == <<cooldown, scan_request_lock, rfid_timeout, ovars, rdvars, hvars,
             tvars, hist>>

\* ---- on_rfid_scan_request, lines 199-210 and 324: the flag is set and the
\* scan_thread of the request is started
OverlapRequest(r) ==
    /\ k_pc[r] = "none"
    /\ \A q \in Requests : q < r => k_pc[q] # "none"
    /\ scan_request_active' = TRUE
    /\ k_pc' = [k_pc EXCEPT ![r] = "start"]
    /\ UNCHANGED <<k_tag, k_cancelled, k_result, k_cooldown>>
    /\ UNCHANGED frame10
    /\ UNCHANGED <<dvars, rvars, gvars, xvars, avars, lvars, evars, qvars>>

\* ---- scan_thread, lines 215-225: no reader; the flag is cleared and the
\* failure emitted
OverlapNoReader(r) ==
    /\ k_pc[r] = "start"
    /\ scan_request_active' = FALSE
    /\ k_result' = [k_result EXCEPT ![r] = "failure"]
    /\ k_pc' = [k_pc EXCEPT ![r] = "done"]
    /\ UNCHANGED <<k_tag, k_cancelled, k_cooldown>>
    /\ UNCHANGED frame10
    /\ UNCHANGED <<dvars, rvars, gvars, xvars, avars, lvars, evars, qvars>>

\* ---- scan_thread, lines 227-246: the two sleeps, then read_rfid is called
OverlapReadStart(r) ==
    /\ k_pc[r] = "start"
    /\ k_pc' = [k_pc EXCEPT ![r] = "read"]
    /\ UNCHANGED <<scan_request_active, k_tag, k_cancelled, k_result, k_cooldown>>
    /\ UNCHANGED frame10
    /\ UNCHANGED <<dvars, rvars, gvars, xvars, avars, lvars, evars, qvars>>

\* ---- scan_thread, lines 246-247: read_rfid returns a tag or, at the
\* timeout or on a reader error, (None, None)
OverlapReadReturns(r) ==
    /\ k_pc[r] = "read"
    /\ \E tag \in {"tag", "none"} : k_tag' = [k_tag EXCEPT ![r] = tag]
    /\ k_pc' = [k_pc EXCEPT ![r] = "clear"]
    /\ UNCHANGED <<scan_request_active, k_cancelled, k_result, k_cooldown>>
    /\ UNCHANGED frame10
    /\ UNCHANGED <<dvars, rvars, gvars, xvars, avars, lvars, evars, qvars>>

\* ---- scan_thread, lines 250-262 and 286-292: the flag is cleared and the
\* outcome shown on the LCD
OverlapClear(r) ==
    /\ k_pc[r] = "clear"
    /\ scan_request_active' = FALSE
    /\ k_pc' = [k_pc EXCEPT ![r] = IF k_tag[r] = "tag" THEN "display"
                                                      ELSE "fail_display"]
    /\ UNCHANGED <<k_tag, k_cancelled, k_result, k_cooldown>>
    /\ UNCHANGED frame10
    /\ UNCHANGED <<dvars, rvars, gvars, xvars, avars, lvars, evars, qvars>>

\* ---- scan_thread, lines 269-284: scan_cooldown_until is set and the tag
\* emitted; when emit raises, the except clause of lines 312-321 clears the
\* flag and tries to emit a failure
OverlapSuccess(r) ==
    /\ k_pc[r] = "display"
    /\ k_cooldown' = [k_cooldown EXCEPT ![r] = TRUE]
    /\ \E raised \in BOOLEAN :
         /\ k_result' = [k_result EXCEPT ![r] =
                            IF raised THEN "failure" ELSE "success"]
         /\ scan_request_active' = IF raised THEN FALSE ELSE scan_request_active
    /\ k_pc' = [k_pc EXCEPT ![r] = "done"]
    /\ UNCHANGED <<k_tag, k_cancelled>>
    /\ UNCHANGED frame10
    /\ UNCHANGED <<dvars, rvars, gvars, xvars, avars, lvars, evars, qvars>>

\* ---- scan_thread, lines 286-301 (and 312-321 when emit raises)
OverlapFailure(r) ==
    /\ k_pc[r] = "fail_display"
    /\ k_result' = [k_result EXCEPT ![r] = "failure"]
    /\ \E raised \in BOOLEAN :
         scan_request_active' = IF raised THEN FALSE ELSE scan_request_active
    /\ k_pc' = [k_pc EXCEPT ![r] = "done"]
    /\ UNCHANGED <<k_tag, k_cancelled, k_cooldown>>
    /\ UNCHANGED frame10
    /\ UNCHANGED <<dvars, rvars, gvars, xvars, avars, lvars, evars, qvars>>

\* ---- on_rfid_scan_cancel, lines 327-334, for a request whose result the
\* server has not received
OverlapCancel(r) ==
    /\ k_pc[r] # "none" /\ k_result[r] = "none"
    /\ ~k_cancelled[r]
    /\ scan_request_active' = FALSE
    /\ k_cancelled' = [k_cancelled EXCEPT ![r] = TRUE]
    /\ k_pc' = [k_pc EXCEPT ![r] = AfterCancel(@)]
    /\ UNCHANGED <<k_tag, k_result, k_cooldown>>
    /\ UNCHANGED frame10
    /\ UNCHANGED <<dvars, rvars, gvars, xvars, avars, lvars, evars, qvars>>

OverlapNext ==
    \E r \in Requests :
        \/ OverlapRequest(r) \/ OverlapNoReader(r) \/ OverlapReadStart(r)
        \/ OverlapReadReturns(r) \/ OverlapClear(r) \/ OverlapSuccess(r)
        \/ OverlapFailure(r) \/ OverlapCancel(r)

(***************************************************************************)
(*                 Claims about overlapping scan requests                  *)
(***************************************************************************)
\* C37: when a scan_thread clears scan_request_active at the end of its
\* read, no scan_thread of another request is between its start and the
\* return of its own read.
C37_FlagHeldUntilLastReadReturns ==
    [][\A r \in Requests :
          (k_pc[r] = "clear" /\ k_pc'[r] # "clear") =>
              \A q \in Requests \ {r} : k_pc[q] \notin BeforeReadReturns]_vars

\* C38: a request for which scan_cancel was received before its read
\* returned emits no scan_result with success true and sets no cooldown.
C38_CancelledReadAbandoned ==
    [][\A r \in Requests :
          (k_cancelled[r] /\ k_pc[r] = "display") =>
              (k_result'[r] # "success" /\ ~k_cooldown'[r])]_vars

(***************************************************************************)
(*                          SPECIFICATIONS                                 *)
(***************************************************************************)

\* ---- the state after construction: the locals of wait_for_multiple_papers
\* at its start (lines 1246-1268), RedemptionHandlerThread.__init__ (lines
\* 1816-1824), RealtimeClient.__init__ (realtime_client.py 73-77) and
\* TransactionProcessor.__init__ (line 1218)
Init ==
    /\ d_pc = "preroll"
    /\ since_start = 0
    /\ clear_check_count = 0
    /\ paper_count = 0
    /\ first_low_age = NoTime
    /\ waiting_for_clear = FALSE
    /\ last_paper_age = NoTime
    /\ clear_wait_expired = FALSE
    /\ d_ret = NotReturned
    /\ run_age = NoTime
    /\ run_dur = NoTime
    /\ run_counted = 0
    /\ run_await = FALSE
    /\ prev_run_dur = NoTime
    /\ cleared_since_count = FALSE
    \* redemption dispatcher
    /\ processing_redemptions = {}
    /\ backend_pending = <<>>
    /\ event_queue = <<>>
    /\ created = {}
    /\ p_pc = "poll" /\ p_list = <<>> /\ p_cur = NoItem
    /\ i_pc = "idle" /\ i_cur = NoItem
    /\ dispense_runs = [id \in RedemptionIds |-> 0]
    \* exclusive scan and orchestrator
    /\ scan_request_active = FALSE
    /\ cooldown = 0 - SkipAfter          \* scan_cooldown_until = 0: long ago
    /\ scan_request_lock = "free"
    /\ rfid_lock = "free"
    /\ orphans = 0
    /\ rfid_timeout \in {NoTime, RFID_TIMEOUT}
    /\ state = "IDLE"
    /\ o_pc = "idle" /\ o_timer = 0 /\ o_waited = 0 /\ o_elapsed = 0
    /\ scan_became_active = FALSE /\ o_tag = "none"
    /\ r_pc = [c \in Callers |-> "none"]
    /\ r_result = [c \in Callers |-> "none"]
    /\ h_pc = "idle" /\ h_timeout = ShortScan
    /\ s_pc = "idle" /\ s_timer = 0 /\ s_elapsed = 0 /\ s_timeout = ShortScan
    /\ s_tag = "none"
    /\ entry_active = FALSE /\ check_active = FALSE /\ wait_expired = FALSE
    /\ read_attempted = FALSE /\ read_overlap = FALSE /\ window = "none"
    /\ read_in_window = FALSE
    /\ verify_in_window = FALSE /\ verify_overlap = FALSE
    /\ users_cache = NoUser
    /\ pending_transactions = <<>>
    /\ is_online = FALSE
    /\ g_last = NoCall
    /\ x_pc = "init" /\ sync_enabled = FALSE /\ lcd = "welcome"
    /\ current_points = 0 /\ points_awarded = NoKey /\ total_points = NoKey
    /\ x_exc = "none" /\ x_prop = FALSE /\ seen = {} /\ verified = "none"
    /\ det = NotReturned /\ submit_invoked = FALSE /\ report = "none"
    /\ x_before = [row |-> NoUser, queued |-> 0]
    /\ a_pc = "init" /\ pwm_ok = FALSE /\ a_ret = "none"
    /\ servo_cfg = [COLLECTION_START |-> 180, COLLECTION_END |-> 0,
                    REWARD_START |-> 0, REWARD_END |-> 180,
                    COLLECTION_IDLE |-> 90, REWARD_IDLE |-> 90, ANGLE_STEP |-> 90]
    /\ a_cycles = 0 /\ a_cycle = 0 /\ a_step = 0
    /\ duty = [s \in Servos |-> 0] /\ requested = [s \in Servos |-> NoAngle]
    /\ a_fault = FALSE /\ cleanup_fault = FALSE
    /\ l_pc = [t \in Threads |-> 1] /\ l_held = [t \in Threads |-> {}]
    /\ e_reward_type = NoItem.rewardType /\ e_paper_count = 0 /\ e_cycles = 0
    /\ q_table = <<>> /\ q_marked = {} /\ q_run = <<>>
    /\ dispense_ok = [path \in {"poller", "immediate"} |-> "none"]
    /\ dispensed_ids = {}
    /\ k_pc = [r \in Requests |-> "none"] /\ k_tag = [r \in Requests |-> "none"]
    /\ k_cancelled = [r \in Requests |-> FALSE]
    /\ k_result = [r \in Requests |-> "none"]
    /\ k_cooldown = [r \in Requests |-> FALSE]

DetectorSpec == Init /\ [][DetectorNext]_vars

RedemptionSpec == Init /\ [][RedemptionNext]_vars

ScanSpec == Init /\ [][ScanNext]_vars

\* Every thread that can take a step takes one, scan_thread included; time
\* goes on (a tick comes whenever the threads have kept waiting for one
\* again and again); and scan_thread, waiting for scan_request_lock, gets
\* it at one of the moments the orchestrator's wait loop has let go of it.
\* Cards and socket events come or do not come.  The reader timeout is the
\* one config.py sets (RFID_TIMEOUT = 30, line 95).
ScanLiveInit == Init /\ rfid_timeout = RFID_TIMEOUT

ScanLiveSpec ==
    /\ ScanLiveInit
    /\ [][ScanNext]_vars
    /\ WF_vars(OrchStep) /\ WF_vars(HandlerStep) /\ WF_vars(ReadStep)
    /\ WF_vars(ScanThreadStep)
    /\ SF_vars(ScanClearActive)
    /\ SF_vars(Tick)

GatewaySpec == Init /\ [][GatewayNext]_vars

TxnSpec == Init /\ [][TxnNext]_vars

ActuatorSpec == Init /\ [][ActuatorNext]_vars

LockSpec == Init /\ [][LockNext]_vars

ExtractSpec == Init /\ [][ExtractNext]_vars

QueueSpec == Init /\ [][QueueNext]_vars

OverlapSpec == Init /\ [][OverlapNext]_vars

====
